---- MODULE Spec2Model ----
(***************************************************************************)
(* Yandex Music Downloader: the run of main over config.urls, the album,   *)
(* playlist and artist walkers, and the per-track pipeline process_track,  *)
(* with the file system the pipeline writes to.                            *)
(*                                                                         *)
(* The program is single threaded; pc is the position of its one thread.   *)
(* Every request to the API, every file system call and the external       *)
(* muxer can fail; a failure the environment injects is counted in faults. *)
(* The process can be killed at any position; the file system survives,    *)
(* and the next run starts from main again with the same configuration.    *)
(***************************************************************************)
EXTENDS Integers, Sequences, FiniteSets, TLC

(***************************************************************************)
(* Bounds of the model.                                                    *)
(***************************************************************************)
MaxUrls == 2
MaxVolumes == 2
MaxVolLen == 1
MaxPlaylistLen == 1
MaxArtistAlbums == 1
MaxChunks == 1
MaxFaults == 1
MaxRuns == 2
MaxRunUrls == 1
MaxPathLen == 11

(***************************************************************************)
(* Option values: None is the empty sequence, Some(x) the sequence <<x>>.  *)
(***************************************************************************)
None == <<>>
Some(x) == <<x>>

(***************************************************************************)
(* Strings are sequences of one-character strings; a file suffix that the  *)
(* program appends as a whole is one element.                              *)
(***************************************************************************)
DigitChars == <<"0", "1", "2", "3", "4", "5", "6", "7", "8", "9">>

RECURSIVE to_string(_)
to_string(n) ==
    IF n < 10 THEN <<DigitChars[n + 1]>>
    ELSE to_string(n \div 10) \o <<DigitChars[(n % 10) + 1]>>

RECURSIVE Zeros(_)
Zeros(k) == IF k <= 0 THEN <<>> ELSE <<"0">> \o Zeros(k - 1)

\* format_track_number as it would be without the padding
format_track_number_unpadded(track_num, track_total) == to_string(track_num)

\* utils::format_track_number: track_num padded with zeros to the number of
\* digits of track_total; a longer track_num is printed in full.
format_track_number(track_num, track_total) ==
    LET padding == Len(to_string(track_total))
        digits == to_string(track_num)
    IN  Zeros(padding - Len(digits)) \o digits

\* the characters of the class [\/:*?"><|], where \/ is the slash
SAN_REGEX_STRING == {"/", ":", "*", "?", "\"", ">", "<", "|"}
Whitespace == {" ", "\t"}

RECURSIVE trim_start(_)
trim_start(s) ==
    IF s # <<>> /\ Head(s) \in Whitespace THEN trim_start(Tail(s)) ELSE s

RECURSIVE trim_end(_)
trim_end(s) ==
    IF s # <<>> /\ s[Len(s)] \in Whitespace
    THEN trim_end(SubSeq(s, 1, Len(s) - 1)) ELSE s

RECURSIVE trim_end_matches_period(_)
trim_end_matches_period(s) ==
    IF s # <<>> /\ s[Len(s)] = "."
    THEN trim_end_matches_period(SubSeq(s, 1, Len(s) - 1)) ELSE s

\* utils::sanitise
sanitise(filename, trim_periods) ==
    LET sanitised == [i \in 1..Len(filename) |->
                        IF filename[i] \in SAN_REGEX_STRING THEN "_"
                        ELSE filename[i]]
    IN  IF trim_periods
        THEN trim_end_matches_period(trim_end(trim_start(sanitised)))
        ELSE trim_start(sanitised)

\* the cast "as u16" of a usize
as_u16(n) == n % 65536

\* utils::append_to_path_buf and PathBuf::join
append_to_path_buf(path, to_append) == path \o <<to_append>>
join(path, name) == path \o <<"/">> \o name

\* the title the API gives the track with this id
TitleOf(id) == <<"T">> \o to_string(id)

\* str::replace for every key of the replacements: a template is a sequence
\* of characters and placeholders
RECURSIVE replace(_, _)
replace(template, replacements) ==
    IF template = <<>> THEN <<>>
    ELSE (IF Head(template) \in DOMAIN replacements
          THEN replacements[Head(template)]
          ELSE <<Head(template)>>)
         \o replace(Tail(template), replacements)

\* main::parse_template
parse_template(template, replacements) ==
    sanitise(replace(template, replacements), FALSE)

\* main::parse_track_template
parse_track_template(template, meta, padding) ==
    parse_template(template,
        [x \in {"{track_num}", "{track_num_pad}", "{title}", "{artist}"} |->
            CASE x = "{track_num}" -> to_string(meta.track_num)
              [] x = "{track_num_pad}" -> padding
              [] x = "{title}" -> meta.title
              [] OTHER -> meta.artist])

DefaultTrackTemplate == <<"{track_num_pad}", ".", " ", "{title}">>
TrackTemplates == {DefaultTrackTemplate, <<"{track_num_pad}">>}

(***************************************************************************)
(* What the API and the command line can hand to the program.              *)
(***************************************************************************)
\* A URL of config.urls, by the regex of REGEX_STRINGS it matches and its two
\* capture groups; second 0 stands for the empty string.
UrlTrackIds == 0..MaxVolLen
Urls ==
    {[kind |-> "other", first |-> "x", second |-> 0]}
    \cup {[kind |-> "album", first |-> "A", second |-> t] : t \in UrlTrackIds}
    \cup {[kind |-> "playlist", first |-> "u", second |-> 3]}
    \cup {[kind |-> "artist", first |-> "R", second |-> 0]}

\* utils::process_urls leaves no URL twice in config.urls
UrlLists ==
    UNION {{u \in [1..n -> Urls] : \A i, j \in 1..n : u[i] = u[j] => i = j}
           : n \in 0..MaxUrls}

\* api::structs::LyricsInfo, and Option<LyricsInfo>
LyricsInfo ==
    [has_available_sync_lyrics : BOOLEAN, has_available_text_lyrics : BOOLEAN]
OptLyricsInfo == {None} \cup {Some(l) : l \in LyricsInfo}

\* LyricsInfo::check_availibility
check_availibility(self) ==
    IF self.has_available_sync_lyrics THEN Some(TRUE)
    ELSE IF self.has_available_text_lyrics THEN Some(FALSE)
    ELSE None

\* api::structs::Volume, one track of an album: the fields the program reads
Volume == [available : BOOLEAN, lyrics_info : OptLyricsInfo]

\* api::structs::PlaylistTrack; albums holds the available flag of each album
PlaylistTrack ==
    [track_source : {"OWN", "UGC"}, available : BOOLEAN,
     albums : {<<>>, <<TRUE>>, <<FALSE>>},
     cover_uri : {None, Some("uri")}, lyrics_info : OptLyricsInfo]

\* AlbumResult.volumes: the tracks of an album are numbered 1, 2, ... through
\* its volumes, and these numbers are their ids
RECURSIVE VolumesOf(_, _)
VolumesOf(lens, first) ==
    IF lens = <<>> THEN <<>>
    ELSE <<[i \in 1..Head(lens) |-> first + i - 1]>>
         \o VolumesOf(Tail(lens), first + Head(lens))

AlbumVolumes ==
    UNION {{VolumesOf(lens, 1) : lens \in [1..n -> 0..MaxVolLen]}
           : n \in 0..MaxVolumes}

\* the codec identifiers get-file-info can answer with: the container
\* variants, the plain codecs the request names (client.rs, "codecs"), another
Codecs == {"flac-mp4", "mp3-mp4", "aac-mp4", "he-aac-mp4",
           "flac", "mp3", "aac", "he-aac", "opus"}

\* DownloadInfo.key: a hex string of 16 bytes, of 8 bytes, or no hex string
Keys == {"hex16", "hex8", "nothex"}

\* main::parse_specs: the file extension, or None
parse_specs(codec) ==
    CASE codec = "flac-mp4" -> Some(".flac")
      [] codec = "mp3-mp4" -> Some(".mp3")
      [] codec \in {"aac-mp4", "he-aac-mp4"} -> Some(".m4a")
      [] OTHER -> None

\* main::check_url: the capture groups and the index of the matching regex
check_url(url) ==
    CASE url.kind = "album" -> Some(<<url.first, url.second, 0>>)
      [] url.kind = "playlist" -> Some(<<url.first, url.second, 1>>)
      [] url.kind = "artist" -> Some(<<url.first, url.second, 2>>)
      [] OTHER -> None

(***************************************************************************)
(* The file system: the files that exist, each with its content, a pair of *)
(* the kind of file and the payload chunks it holds.                       *)
(***************************************************************************)
WriteFile(f, path, content) ==
    [q \in DOMAIN f \cup {path} |-> IF q = path THEN content ELSE f[q]]
RemoveFile(f, path) == [q \in DOMAIN f \ {path} |-> f[q]]

\* the chunks of the media payload of a track, as the server sends them
Chunk(id, i) == id * 10 + i
Payload(id) == [i \in 1..MaxChunks |-> Chunk(id, i)]

\* fs::metadata fails for a path longer than the platform allows: with error
\* 206 on Windows (main.rs, process_track)
ERROR_FILENAME_EXCED_RANGE == 206

out_path == <<"out">>

VARIABLES
    config,        \* structs::Config: urls, write_lyrics, track_template
    IS_WINDOWS,    \* the build target
    fs,            \* the file system under config.out_path
    pc,            \* position of the program
    url_num,       \* main: URLs done
    res,           \* main: result of the walker that returned
    alb,           \* frame of process_album
    art,           \* frame of process_artist_albums
    pl,            \* frame of process_user_playlist
    parsed_meta,   \* structs::ParsedAlbumMeta of the walker
    trk,           \* frame of process_track, with the record of what it did
    url_log,       \* what main did with each URL of this run
    faults,        \* failures injected so far
    runs           \* runs of the program started so far

vars == <<config, IS_WINDOWS, fs, pc, url_num, res, alb, art, pl, parsed_meta,
          trk, url_log, faults, runs>>

NoAlbum ==
    [caller |-> "", track_id |-> 0, base |-> <<>>, tracks |-> <<>>, k |-> 0,
     album_path |-> <<>>, seen |-> <<>>, invoked |-> <<>>, volumes |-> <<>>]
NoArtist ==
    [albums |-> 0, album_num |-> 0, artist_path |-> <<>>, name |-> <<>>]
NoPlaylist ==
    [track_total |-> 0, k |-> 0, plist_path |-> <<>>, invoked |-> <<>>,
     login |-> <<>>, title |-> <<>>]
NoMeta ==
    [album_title |-> <<>>, album_artist |-> <<>>, artist |-> <<>>,
     cover_data |-> <<>>, genre |-> None, label |-> <<>>, year |-> None,
     title |-> <<>>, track_num |-> 0, track_total |-> 0,
     lyrics_avail |-> None, is_track_only |-> FALSE,
     timed_lyrics |-> None, untimed_lyrics |-> None]
NoTrack ==
    [caller |-> "", track_id |-> 0, album_path |-> <<>>,
     info |-> [codec |-> "", key |-> ""], file_ext |-> "",
     padding |-> <<>>, track_path_no_ext |-> <<>>, track_path |-> <<>>,
     track_path_incomp |-> <<>>, track_path_incomp_dec |-> <<>>,
     downloaded |-> 0, reqs |-> <<>>, writes |-> 0, stages |-> <<>>,
     orphans |-> FALSE, outcome |-> <<>>, resp |-> <<>>, stderr |-> <<>>,
     err_str |-> <<>>, tags |-> <<>>,
     ts |-> <<>>, quality |-> <<>>, sign |-> <<>>]

\* the state when main starts, for these command lines, track templates,
\* build targets and settings of write_covers
InitWith(urls, templates, targets, covers, sleeps) ==
    /\ config \in [urls : urls, write_lyrics : BOOLEAN,
                   track_template : templates, write_covers : covers,
                   sleep : sleeps]
    /\ IS_WINDOWS \in targets
    /\ fs = [q \in {} |-> <<>>]
    /\ pc = "main"
    /\ url_num = 0
    /\ res = ""
    /\ alb = NoAlbum
    /\ art = NoArtist
    /\ pl = NoPlaylist
    /\ parsed_meta = NoMeta
    /\ trk = NoTrack
    /\ url_log = <<>>
    /\ faults = 0
    /\ runs = 1

\* the build for a target other than Windows, with the default track
\* template, write_covers set and sleep not set
Init == InitWith(UrlLists, {DefaultTrackTemplate}, {FALSE}, {TRUE},
             {FALSE})

\* the same, for the command lines of at most MaxRunUrls URLs
InitRuns ==
    InitWith({u \in UrlLists : Len(u) <= MaxRunUrls}, {DefaultTrackTemplate},
             {FALSE}, {TRUE},
             {FALSE})

\* the calls of thread::sleep so far in this run
Sleeps == Cardinality({i \in DOMAIN url_log : url_log[i][2] = "sleep"})

\* a failure of the environment: a request, a file system call, the muxer
Fault == faults < MaxFaults /\ faults' = faults + 1
NoFault == faults' = faults

(***************************************************************************)
(* main                                                                    *)
(***************************************************************************)
\* main, up to the loop: parse_config, the root output directory, the
\* regexes, the sign-in of YandexMusicClient::new. A failure ends the run.
main_startup ==
    /\ pc = "main"
    /\ \/ /\ NoFault
          /\ pc' = "main_loop"
       \/ /\ Fault
          /\ pc' = "fatal"
    /\ UNCHANGED <<config, IS_WINDOWS, fs, url_num, res, alb, art, pl,
                   parsed_meta, trk, url_log, runs>>

\* the loop of main at a URL that matches no regex: "Invalid URL", continue
main_invalid_url ==
    /\ pc = "main_loop"
    /\ url_num < Len(config.urls)
    /\ check_url(config.urls[url_num + 1]) = None
    /\ url_log' = Append(url_log, <<url_num + 1, "invalid">>)
    /\ url_num' = url_num + 1
    /\ UNCHANGED <<config, IS_WINDOWS, fs, pc, res, alb, art, pl, parsed_meta,
                   trk, faults, runs>>

\* the loop of main at a URL of an album, a playlist or an artist: the call
main_dispatch ==
    /\ pc = "main_loop"
    /\ url_num < Len(config.urls)
    /\ check_url(config.urls[url_num + 1]) # None
    /\ LET m == check_url(config.urls[url_num + 1])[1]
           second_group == m[2]
           media_type == m[3]
       IN  CASE media_type = 0 ->
                  /\ pc' = "process_album"
                  /\ alb' = [NoAlbum EXCEPT !.caller = "main",
                                            !.track_id = second_group,
                                            !.base = out_path]
                  /\ UNCHANGED <<art, pl>>
             [] media_type = 1 ->
                  /\ pc' = "process_user_playlist"
                  /\ pl' = NoPlaylist
                  /\ UNCHANGED <<alb, art>>
             [] OTHER ->
                  /\ pc' = "process_artist_albums"
                  /\ art' = NoArtist
                  /\ UNCHANGED <<alb, pl>>
    /\ UNCHANGED <<config, IS_WINDOWS, fs, url_num, res, parsed_meta, trk,
                   url_log, faults, runs>>

\* the loop of main after the walker returned: "URL failed" for an Err, the
\* optional sleep, the next URL. What the walker held is dropped.
main_url_done ==
    /\ pc = "main_res"
    /\ url_log' = Append(url_log, <<url_num + 1, res>>)
                   \o (IF config.sleep THEN <<<<url_num + 1, "sleep">>>>
                       ELSE <<>>)
    /\ url_num' = url_num + 1
    /\ pc' = "main_loop"
    /\ res' = ""
    /\ alb' = NoAlbum
    /\ art' = NoArtist
    /\ pl' = NoPlaylist
    /\ parsed_meta' = NoMeta
    /\ trk' = NoTrack
    /\ UNCHANGED <<config, IS_WINDOWS, fs, faults, runs>>

\* the end of the loop of main: Ok(())
main_exit ==
    /\ pc = "main_loop"
    /\ url_num = Len(config.urls)
    /\ pc' = "exit"
    /\ UNCHANGED <<config, IS_WINDOWS, fs, url_num, res, alb, art, pl,
                   parsed_meta, trk, url_log, faults, runs>>

(***************************************************************************)
(* process_album                                                           *)
(***************************************************************************)
\* main::parse_artists and main::parse_labels: the names, with ", " between
RECURSIVE parse_artists(_)
parse_artists(artists) ==
    IF artists = <<>> THEN <<>>
    ELSE IF Len(artists) = 1 THEN Head(artists)
    ELSE Head(artists) \o <<",", " ">> \o parse_artists(Tail(artists))
parse_labels(labels) == parse_artists(labels)

\* main::parse_title
parse_title(title, version) ==
    title \o (IF version = None THEN <<>>
              ELSE <<" ", "(">> \o version[1] \o <<")">>)

\* api::structs::AlbumResult and AlbumResultInPlaylist, the fields that go
\* into the tags, with the body the cover URL of the album answers with
AlbumA ==
    [title |-> <<"A">>, version |-> None, artists |-> <<<<"a">>>>,
     labels |-> <<<<"L">>>>, genre |-> Some(<<"g">>), year |-> Some(2020),
     cover_uri |-> Some("uri"), cover_body |-> <<255, 216>>]
AlbumResult ==
    {[AlbumA EXCEPT !.artists = artists, !.genre = genre, !.year = year,
                    !.cover_uri = cover_uri]
        : artists \in {<<>>, <<<<"a">>>>}, genre \in {None, Some(<<"g">>)},
          year \in {None, Some(0), Some(2020)},
          cover_uri \in {None, Some("uri")}}

\* main::parse_album_meta and main::parse_album_meta_playlist: the per-track
\* fields start empty
parse_album_meta(meta, track_total) ==
    [album_artist |-> parse_artists(meta.artists),
     album_title |-> parse_title(meta.title, meta.version),
     artist |-> <<>>, cover_data |-> <<>>, genre |-> meta.genre,
     lyrics_avail |-> None, is_track_only |-> FALSE, title |-> <<>>,
     track_num |-> 0, track_total |-> track_total,
     label |-> parse_labels(meta.labels),
     timed_lyrics |-> None, untimed_lyrics |-> None, year |-> meta.year]

\* main::parse_track_meta
parse_track_meta(meta, id, track_meta, track_num, is_track_only) ==
    [meta EXCEPT
       !.artist = <<"a">>,
       !.title = TitleOf(id),
       !.track_num = track_num,
       !.lyrics_avail =
           IF track_meta.lyrics_info # None
           THEN check_availibility(track_meta.lyrics_info[1])
           ELSE meta.lyrics_avail,
       !.is_track_only = is_track_only]

\* volume.retain(|track| track.id == track_id), for every volume
Retain(volumes, track_id) ==
    [v \in 1..Len(volumes) |->
        SelectSeq(volumes[v], LAMBDA id : id = track_id)]

\* the tracks in the order the two loops of process_album visit them, each
\* with the number enumerate() gives it in its volume
RECURSIVE LoopOrder(_)
LoopOrder(volumes) ==
    IF volumes = <<>> THEN <<>>
    ELSE [i \in 1..Len(Head(volumes)) |->
             [id |-> Head(volumes)[i], track_num |-> i]]
         \o LoopOrder(Tail(volumes))

RECURSIVE SumLen(_)
SumLen(volumes) ==
    IF volumes = <<>> THEN 0 ELSE Len(Head(volumes)) + SumLen(Tail(volumes))

\* process_album returns to main or to process_artist_albums
AlbumReturns(result) ==
    /\ res' = result
    /\ pc' = IF alb.caller = "main" THEN "main_res" ELSE "artist_res"

\* the call of process_track
Call(caller, id, album_path) ==
    /\ trk' = [NoTrack EXCEPT !.caller = caller, !.track_id = id,
                              !.album_path = album_path]
    /\ pc' = "get_file_info"

\* process_album up to its loop: the album's metadata, its folder, its
\* cover, the track of a single-track URL; get_album_meta answers with one
\* of these volume lists
process_album_of(layouts, albums) ==
    /\ pc = "process_album"
    /\ \/ \* get_album_meta, create_dir_all, get_cover_data or write_cover fails
          /\ Fault
          /\ AlbumReturns("Err")
          /\ UNCHANGED <<alb, parsed_meta>>
       \/ /\ NoFault
          /\ \E available \in BOOLEAN, volumes \in layouts, meta \in albums :
               LET is_track_only == alb.track_id # 0
                   track_total == SumLen(volumes)
                   kept == IF is_track_only
                           THEN Retain(volumes, alb.track_id) ELSE volumes
               IN  IF \/ ~available
                      \/ is_track_only /\ \A v \in 1..Len(kept) : kept[v] = <<>>
                   THEN /\ AlbumReturns("Err")
                        /\ UNCHANGED <<alb, parsed_meta>>
                   ELSE /\ parsed_meta' =
                             [parse_album_meta(meta, as_u16(track_total))
                              EXCEPT !.cover_data =
                                  IF meta.cover_uri # None
                                     /\ config.write_covers
                                  THEN meta.cover_body ELSE <<>>]
                        /\ alb' = [alb EXCEPT
                              !.volumes = volumes,
                              !.tracks = LoopOrder(kept),
                              !.album_path =
                                  join(alb.base, sanitise(<<"A">>, FALSE))]
                        /\ pc' = "album_loop"
                        /\ res' = res
    /\ UNCHANGED <<config, IS_WINDOWS, fs, url_num, art, pl, trk, url_log,
                   runs>>

process_album_begin == process_album_of(AlbumVolumes, {AlbumA})

\* the loop of process_album at a track that is not available: continue
album_track_unavailable ==
    /\ pc = "album_loop"
    /\ alb.k < Len(alb.tracks)
    /\ alb' = [alb EXCEPT
          !.k = alb.k + 1,
          !.seen = Append(alb.seen, [id |-> alb.tracks[alb.k + 1].id,
                                     available |-> FALSE])]
    /\ UNCHANGED <<config, IS_WINDOWS, fs, pc, url_num, res, art, pl,
                   parsed_meta, trk, url_log, faults, runs>>

\* the loop of process_album at an available track: parse_track_meta and the
\* call of process_track
album_call_track ==
    /\ pc = "album_loop"
    /\ alb.k < Len(alb.tracks)
    /\ \E track \in Volume :
         /\ track.available
         /\ parsed_meta' = parse_track_meta(parsed_meta,
                               alb.tracks[alb.k + 1].id, track,
                               as_u16(alb.tracks[alb.k + 1].track_num),
                               alb.track_id # 0)
    /\ alb' = [alb EXCEPT
          !.seen = Append(alb.seen, [id |-> alb.tracks[alb.k + 1].id,
                                     available |-> TRUE])]
    /\ Call("album", alb.tracks[alb.k + 1].id, alb.album_path)
    /\ UNCHANGED <<config, IS_WINDOWS, fs, url_num, res, art, pl, url_log,
                   faults, runs>>

\* the loop of process_album as it would be with process_track(...)?: the
\* Err of a track is the Err of the album
album_track_done_propagates ==
    /\ pc = "track_ret"
    /\ trk.caller = "album"
    /\ alb' = [alb EXCEPT
          !.k = IF trk.outcome[1] = "Err" THEN alb.k ELSE alb.k + 1,
          !.invoked = Append(alb.invoked, [id |-> trk.track_id,
                                           outcome |-> trk.outcome,
                                           sleeps |-> Sleeps])]
    /\ trk' = NoTrack
    /\ IF trk.outcome[1] = "Err"
       THEN AlbumReturns("Err")
       ELSE pc' = "album_loop" /\ res' = res
    /\ UNCHANGED <<config, IS_WINDOWS, fs, url_num, art, pl, parsed_meta,
                   url_log, faults, runs>>

\* the loop of process_album as it would be with a retry: after an Err the
\* loop stays at the track
album_track_done_retries ==
    /\ pc = "track_ret"
    /\ trk.caller = "album"
    /\ alb' = [alb EXCEPT
          !.k = IF trk.outcome[1] = "Err" THEN alb.k ELSE alb.k + 1,
          !.invoked = Append(alb.invoked, [id |-> trk.track_id,
                                           outcome |-> trk.outcome,
                                           sleeps |-> Sleeps])]
    /\ trk' = NoTrack
    /\ pc' = "album_loop"
    /\ UNCHANGED <<config, IS_WINDOWS, fs, url_num, res, art, pl, parsed_meta,
                   url_log, faults, runs>>

\* the loop of process_album after process_track returned: "Track failed"
\* for an Err, then the next track
album_track_done ==
    /\ pc = "track_ret"
    /\ trk.caller = "album"
    /\ alb' = [alb EXCEPT
          !.k = alb.k + 1,
          !.invoked = Append(alb.invoked, [id |-> trk.track_id,
                                           outcome |-> trk.outcome,
                                           sleeps |-> Sleeps])]
    /\ trk' = NoTrack
    /\ pc' = "album_loop"
    /\ UNCHANGED <<config, IS_WINDOWS, fs, url_num, res, art, pl, parsed_meta,
                   url_log, faults, runs>>

\* the end of the loop of process_album: Ok(())
album_return ==
    /\ pc = "album_loop"
    /\ alb.k = Len(alb.tracks)
    /\ AlbumReturns("Ok")
    /\ UNCHANGED <<config, IS_WINDOWS, fs, url_num, alb, art, pl, parsed_meta,
                   trk, url_log, faults, runs>>

(***************************************************************************)
(* process_track                                                           *)
(***************************************************************************)
Ok(x) == <<"Ok", x>>
Err(x) == <<"Err", x>>

\* what process_track returns: Ok(()) after "Track already exists locally.",
\* Ok(()) at its end, the Err of an unknown codec
AlreadyExists == Ok("exists")
TrackWritten == Ok("written")
UnknownCodec == Err("unknown codec")

\* file_exists as it would be with metadata.is_dir() for metadata.is_file():
\* no regular file is ever reported
file_exists_is_dir(f, file_path) ==
    IF Len(file_path) > MaxPathLen
    THEN Err(IF IS_WINDOWS THEN ERROR_FILENAME_EXCED_RANGE ELSE 36)
    ELSE Ok(FALSE)

\* utils::file_exists, on the file system f: fs::metadata fails for a path
\* that is too long, and NotFound is Ok(false)
file_exists(f, file_path) ==
    IF Len(file_path) > MaxPathLen
    THEN Err(IF IS_WINDOWS THEN ERROR_FILENAME_EXCED_RANGE ELSE 36)
    ELSE Ok(file_path \in DOMAIN f)

\* process_track returns with this outcome
Returns(t, outcome) ==
    /\ trk' = [t EXCEPT !.outcome = outcome]
    /\ pc' = "track_ret"

\* a stage of process_track starts
Stage(t, name) == [t EXCEPT !.stages = Append(t.stages, name)]
Request(t, name) == [t EXCEPT !.reqs = Append(t.reqs, name)]
Written(t) == [t EXCEPT !.writes = t.writes + 1]

\* process_track: get_file_info, parse_specs, the file name from the
\* template, the paths
get_file_info ==
    /\ pc = "get_file_info"
    /\ LET t == Request(Stage(trk, "get_file_info"), "get_file_info")
       IN  \/ /\ Fault
              /\ Returns(t, <<"Err", "get_file_info">>)
           \/ /\ NoFault
              /\ \E codec \in Codecs :
                   LET info == [trk.info EXCEPT !.codec = codec]
                       specs == parse_specs(info.codec)
                   IN  IF specs = None
                       THEN Returns([t EXCEPT !.info = info],
                                    <<"Err", "unknown codec">>)
                       ELSE LET file_ext == specs[1]
                                padding == format_track_number(
                                    parsed_meta.track_num,
                                    parsed_meta.track_total)
                                san_track_fname == parse_track_template(
                                    config.track_template, parsed_meta, padding)
                                track_path_no_ext ==
                                    join(trk.album_path, san_track_fname)
                            IN  /\ trk' = [t EXCEPT
                                      !.info = info,
                                      !.file_ext = file_ext,
                                      !.padding = padding,
                                      !.track_path_no_ext = track_path_no_ext,
                                      !.track_path = append_to_path_buf(
                                          track_path_no_ext, file_ext)]
                                /\ pc' = "file_exists"
    /\ UNCHANGED <<config, IS_WINDOWS, fs, url_num, res, alb, art, pl,
                   parsed_meta, url_log, runs>>

\* the temp paths of process_track, from the path without extension
TempPaths(t, track_path_no_ext, track_path) ==
    LET track_path_incomp ==
            append_to_path_buf(track_path_no_ext, ".incomplete")
        track_path_incomp_dec ==
            append_to_path_buf(track_path_no_ext, ".incomplete_dec.mp4")
    IN  [t EXCEPT
           !.track_path_no_ext = track_path_no_ext,
           !.track_path = track_path,
           !.track_path_incomp = track_path_incomp,
           !.track_path_incomp_dec = track_path_incomp_dec,
           !.orphans = \/ track_path_incomp \in DOMAIN fs
                       \/ track_path_incomp_dec \in DOMAIN fs]

\* the match of process_track as it would be with the fallback on every
\* target, for the error of a path that is too long
check_exists_any_target ==
    /\ pc = "file_exists"
    /\ \/ \* fs::metadata fails with another error
          /\ Fault
          /\ Returns(trk, <<"Err", "file_exists">>)
       \/ /\ NoFault
          /\ LET r == file_exists(fs, trk.track_path)
             IN  CASE r[1] = "Ok" /\ r[2] ->
                        Returns(trk, <<"Ok", "exists">>)
                   [] r[1] = "Ok" /\ ~r[2] ->
                        /\ trk' = TempPaths(trk, trk.track_path_no_ext,
                                            trk.track_path)
                        /\ pc' = "download_track"
                   [] r[1] = "Err" /\ r[2] \in {ERROR_FILENAME_EXCED_RANGE, 36} ->
                        LET track_path_no_ext ==
                                join(trk.album_path, trk.padding)
                        IN  /\ trk' = TempPaths(trk, track_path_no_ext,
                                   append_to_path_buf(track_path_no_ext,
                                                      trk.file_ext))
                            /\ pc' = "download_track"
                   [] OTHER ->
                        Returns(trk, <<"Err", "file_exists">>)
    /\ UNCHANGED <<config, IS_WINDOWS, fs, url_num, res, alb, art, pl,
                   parsed_meta, url_log, runs>>

\* process_track: the match on utils::file_exists, then the temp paths
check_exists ==
    /\ pc = "file_exists"
    /\ \/ \* fs::metadata fails with another error
          /\ Fault
          /\ Returns(trk, <<"Err", "file_exists">>)
       \/ /\ NoFault
          /\ LET r == file_exists(fs, trk.track_path)
             IN  CASE r[1] = "Ok" /\ r[2] ->
                        Returns(trk, <<"Ok", "exists">>)
                   [] r[1] = "Ok" /\ ~r[2] ->
                        /\ trk' = TempPaths(trk, trk.track_path_no_ext,
                                            trk.track_path)
                        /\ pc' = "download_track"
                   [] /\ IS_WINDOWS
                      /\ r[1] = "Err" /\ r[2] = ERROR_FILENAME_EXCED_RANGE ->
                        LET track_path_no_ext ==
                                join(trk.album_path, trk.padding)
                        IN  /\ trk' = TempPaths(trk, track_path_no_ext,
                                   append_to_path_buf(track_path_no_ext,
                                                      trk.file_ext))
                            /\ pc' = "download_track"
                   [] OTHER ->
                        Returns(trk, <<"Err", "file_exists">>)
    /\ UNCHANGED <<config, IS_WINDOWS, fs, url_num, res, alb, art, pl,
                   parsed_meta, url_log, runs>>

\* File::create as it would be with OpenOptions::new().append(true): a file
\* that is there keeps what it holds
Create_append(f, path) ==
    IF path \in DOMAIN f THEN f ELSE WriteFile(f, path, <<"enc", <<>>>>)

\* File::create: the file exists and is empty
Create(f, path) == WriteFile(f, path, <<"enc", <<>>>>)

\* status codes of a response: success, partial content, a redirect that is
\* not followed, client error, server error
Statuses == {200, 206, 304, 404, 500}

\* the Content-Length a response declares
ContentLengths == {None, Some(0), Some(1)}

\* the responses of the file server
Responses == [status : Statuses, content_length : ContentLengths]

\* the response to a ranged request of a track that is served
PartialContent == [status |-> 206, content_length |-> Some(1)]

\* resp.error_for_status_ref(): an error for a client or server error status
error_for_status(status) == status \in 400..599

\* the Range header get_file_resp sends
RangeHeader(with_range) == IF with_range THEN Some("bytes=0-") ELSE None

\* YandexMusicClient::get_file_resp: the request, the status
get_file_resp(resp, with_range) ==
    IF error_for_status(resp.status) THEN <<"Err", "status">>
    ELSE <<"Ok", resp>>

\* download_track up to its loop: the ranged request, the content length,
\* File::create of the .incomplete file
download_track_of(responses) ==
    /\ pc = "download_track"
    /\ \E resp \in responses :
         LET r == get_file_resp(resp, TRUE)
             t == [Request(Stage(trk, "download_track"), "get_file_resp")
                      EXCEPT !.resp = Some([range |-> RangeHeader(TRUE),
                                            status |-> resp.status,
                                            content_length |->
                                                resp.content_length])]
         IN  IF r[1] = "Err" \/ r[2].content_length = None
             THEN \* `?` of get_file_resp, ok_or("no content length header")
                  /\ Fault
                  /\ Returns(t, <<"Err", "download_track">>)
                  /\ fs' = fs
             ELSE \/ \* File::create fails
                     /\ Fault
                     /\ Returns(t, <<"Err", "download_track">>)
                     /\ fs' = fs
                  \/ /\ NoFault
                     /\ fs' = Create(fs, trk.track_path_incomp)
                     /\ trk' = Written(t)
                     /\ pc' = "download_loop"
    /\ UNCHANGED <<config, IS_WINDOWS, url_num, res, alb, art, pl,
                   parsed_meta, url_log, runs>>

\* the responses to the request of a track: served, refused, or without
\* a length
TrackResponses ==
    {PartialContent,
     [PartialContent EXCEPT !.status = 404],
     [PartialContent EXCEPT !.content_length = None]}

\* download_track of a track that is served, or refused, or answered
\* without a length
download_open == download_track_of(TrackResponses)

\* download_track with any response
download_open_any == download_track_of(Responses)

\* the loop of download_track: one read of the response, written to the file
download_read ==
    /\ pc = "download_loop"
    /\ \/ /\ Fault
          /\ Returns(trk, <<"Err", "download_track">>)
          /\ fs' = fs
       \/ /\ NoFault
          /\ LET n == trk.downloaded + 1
                 old == fs[trk.track_path_incomp]
             IN  /\ fs' = WriteFile(fs, trk.track_path_incomp,
                             <<old[1], Append(old[2], Chunk(trk.track_id, n))>>)
                 /\ trk' = Written([trk EXCEPT !.downloaded = n])
                 /\ pc' = IF n = MaxChunks THEN "decrypt_track"
                          ELSE "download_loop"
    /\ UNCHANGED <<config, IS_WINDOWS, url_num, res, alb, art, pl,
                   parsed_meta, url_log, runs>>

\* hex::decode of the key and the conversion to [u8; 16]
KeyOk(key) == key = "hex16"

\* decrypt_track as it would be with a key of any length taken as it is
decrypt_track_any_key ==
    /\ pc = "decrypt_track"
    /\ LET t == Stage(trk, "decrypt_track")
       IN  \/ \* fs::read or fs::write fails
              /\ Fault
              /\ Returns(t, <<"Err", "decrypt_track">>)
              /\ fs' = fs
           \/ /\ NoFault
              /\ \E key \in Keys :
                   LET t2 == [t EXCEPT !.info.key = key]
                   IN  IF KeyOk(key) \/ TRUE
                       THEN /\ fs' = WriteFile(fs, trk.track_path_incomp_dec,
                                        <<"dec", fs[trk.track_path_incomp][2]>>)
                            /\ trk' = Written(t2)
                            /\ pc' = "mux"
                       ELSE /\ Returns(t2, <<"Err", "key">>)
                            /\ fs' = fs
    /\ UNCHANGED <<config, IS_WINDOWS, url_num, res, alb, art, pl,
                   parsed_meta, url_log, runs>>

\* decrypt_track: the whole .incomplete file through the AES-128-CTR
\* keystream into the .incomplete_dec.mp4 file. The key of the file-info
\* answer is drawn here, where the program first reads it.
decrypt_track ==
    /\ pc = "decrypt_track"
    /\ LET t == Stage(trk, "decrypt_track")
       IN  \/ \* fs::read or fs::write fails
              /\ Fault
              /\ Returns(t, <<"Err", "decrypt_track">>)
              /\ fs' = fs
           \/ /\ NoFault
              /\ \E key \in Keys :
                   LET t2 == [t EXCEPT !.info.key = key]
                   IN  IF KeyOk(key)
                       THEN /\ fs' = WriteFile(fs, trk.track_path_incomp_dec,
                                        <<"dec", fs[trk.track_path_incomp][2]>>)
                            /\ trk' = Written(t2)
                            /\ pc' = "mux"
                       ELSE /\ Returns(t2, <<"Err", "key">>)
                            /\ fs' = fs
    /\ UNCHANGED <<config, IS_WINDOWS, url_num, res, alb, art, pl,
                   parsed_meta, url_log, runs>>

\* what ffmpeg has written to its standard error when it exits with a
\* status that is not zero, as bytes: nothing, "e", the two bytes of
\* e-acute, a byte that is no UTF-8, a lead byte without its continuation
StderrOutputs == {<<>>, <<101>>, <<195, 169>>, <<255>>, <<101, 195>>}

\* the character Rust puts in the place of bytes that are no UTF-8
REPLACEMENT_CHARACTER == 65533

\* String::from_utf8_lossy, the characters as code points, for bytes that
\* are ASCII, a lead byte of a sequence of two (194..223), a continuation
\* byte (128..191), or a byte that starts no sequence (192, 193, 245..255)
RECURSIVE from_utf8_lossy(_)
from_utf8_lossy(v) ==
    IF v = <<>> THEN <<>>
    ELSE IF v[1] < 128 THEN <<v[1]>> \o from_utf8_lossy(Tail(v))
    ELSE IF /\ v[1] \in 194..223
            /\ Len(v) >= 2
            /\ v[2] \in 128..191
         THEN <<(v[1] - 192) * 64 + (v[2] - 128)>>
              \o from_utf8_lossy(Tail(Tail(v)))
    ELSE <<REPLACEMENT_CHARACTER>> \o from_utf8_lossy(Tail(v))

\* format!("ffmpeg failed: {}", err_output), the characters as code points
ffmpeg_failed(err_output) ==
    <<102, 102, 109, 112, 101, 103, 32, 102, 97, 105, 108, 101, 100, 58, 32>>
        \o err_output

\* mux: the exit status is not zero; the error of mux is the text made of
\* the captured standard error
mux_status_fails(t) ==
    \E stderr \in StderrOutputs :
        /\ Returns([t EXCEPT !.stderr = Some(stderr),
                             !.err_str = ffmpeg_failed(
                                             from_utf8_lossy(stderr))],
                   <<"Err", "mux">>)
        /\ fs' = fs

\* mux: ffmpeg -i <in_path> -c:a copy <out_path> starts; it does not
\* overwrite a file, and it opens its output file before it has copied
mux_spawn ==
    /\ pc = "mux"
    /\ LET t == Stage(trk, "mux")
       IN  \/ \* ffmpeg does not start
              /\ Fault
              /\ Returns(t, <<"Err", "mux">>)
              /\ fs' = fs
           \/ \* ffmpeg fails before it opens its output
              /\ Fault
              /\ mux_status_fails(t)
           \/ /\ NoFault
              /\ IF trk.track_path \in DOMAIN fs
                 THEN mux_status_fails(t)
                 ELSE /\ fs' = WriteFile(fs, trk.track_path,
                                  <<"partial", <<>>>>)
                      /\ trk' = Written(t)
                      /\ pc' = "mux_wait"
    /\ UNCHANGED <<config, IS_WINDOWS, url_num, res, alb, art, pl,
                   parsed_meta, url_log, runs>>

\* process_track as it would be with write_tags right after mux
mux_exit_then_tags ==
    /\ pc = "mux_wait"
    /\ NoFault
    /\ fs' = WriteFile(fs, trk.track_path,
                <<"container", fs[trk.track_path_incomp_dec][2]>>)
    /\ trk' = trk
    /\ pc' = "write_tags"
    /\ UNCHANGED <<config, IS_WINDOWS, url_num, res, alb, art, pl,
                   parsed_meta, url_log, runs>>

\* process_track as it would be with the error of mux taken as a warning
mux_exit_goes_on ==
    /\ pc = "mux_wait"
    /\ \/ /\ Fault
          /\ \E stderr \in StderrOutputs :
                trk' = [trk EXCEPT !.stderr = Some(stderr),
                                   !.err_str = ffmpeg_failed(
                                                   from_utf8_lossy(stderr))]
          /\ fs' = fs
          /\ pc' = "remove_incomp"
       \/ /\ NoFault
          /\ fs' = WriteFile(fs, trk.track_path,
                      <<"container", fs[trk.track_path_incomp_dec][2]>>)
          /\ trk' = trk
          /\ pc' = "remove_incomp"
    /\ UNCHANGED <<config, IS_WINDOWS, url_num, res, alb, art, pl,
                   parsed_meta, url_log, runs>>

\* mux: ffmpeg exits, with the container written on success
mux_exit ==
    /\ pc = "mux_wait"
    /\ \/ \* exit status not zero
          /\ Fault
          /\ mux_status_fails(trk)
       \/ /\ NoFault
          /\ fs' = WriteFile(fs, trk.track_path,
                      <<"container", fs[trk.track_path_incomp_dec][2]>>)
          /\ trk' = trk
          /\ pc' = "remove_incomp"
    /\ UNCHANGED <<config, IS_WINDOWS, url_num, res, alb, art, pl,
                   parsed_meta, url_log, runs>>

\* process_track: fs::remove_file(track_path_incomp)
remove_incomp ==
    /\ pc = "remove_incomp"
    /\ LET t == Stage(trk, "remove_file")
       IN  \/ /\ Fault
              /\ Returns(t, <<"Err", "remove_file">>)
              /\ fs' = fs
           \/ /\ NoFault
              /\ fs' = RemoveFile(fs, trk.track_path_incomp)
              /\ trk' = Written(t)
              /\ pc' = "remove_incomp_dec"
    /\ UNCHANGED <<config, IS_WINDOWS, url_num, res, alb, art, pl,
                   parsed_meta, url_log, runs>>

\* process_track as it would be without its second fs::remove_file
remove_incomp_dec_kept ==
    /\ pc = "remove_incomp_dec"
    /\ fs' = fs
    /\ trk' = trk
    /\ NoFault
    /\ pc' = IF parsed_meta.lyrics_avail # None
             THEN "get_lyrics_text" ELSE "write_tags"
    /\ UNCHANGED <<config, IS_WINDOWS, url_num, res, alb, art, pl,
                   parsed_meta, url_log, runs>>

\* process_track: fs::remove_file(track_path_incomp_dec), and the test of
\* meta.lyrics_avail
remove_incomp_dec ==
    /\ pc = "remove_incomp_dec"
    /\ \/ /\ Fault
          /\ Returns(trk, <<"Err", "remove_file">>)
          /\ fs' = fs
       \/ /\ NoFault
          /\ fs' = RemoveFile(fs, trk.track_path_incomp_dec)
          /\ trk' = Written(trk)
          /\ pc' = IF parsed_meta.lyrics_avail # None
                   THEN "get_lyrics_text" ELSE "write_tags"
    /\ UNCHANGED <<config, IS_WINDOWS, url_num, res, alb, art, pl,
                   parsed_meta, url_log, runs>>

\* process_track: get_lyrics_text (get_lyrics_meta, then the lyrics file),
\* the .lrc file of timed lyrics, the lyrics into meta
get_lyrics_text ==
    /\ pc = "get_lyrics_text"
    /\ LET lyrics == parsed_meta.lyrics_avail[1]
           t1 == Request(Stage(trk, "get_lyrics_text"), "get_lyrics_meta")
           t2 == Request(t1, "get_file_resp")
           lyrics_text == trk.track_id
       IN  \/ \* get_lyrics_meta fails
              /\ Fault
              /\ Returns(t1, <<"Err", "get_lyrics_text">>)
              /\ UNCHANGED <<fs, parsed_meta>>
           \/ \* get_file_resp or write_timed_lyrics fails
              /\ Fault
              /\ Returns(t2, <<"Err", "get_lyrics_text">>)
              /\ UNCHANGED <<fs, parsed_meta>>
           \/ /\ NoFault
              /\ IF lyrics
                 THEN /\ IF config.write_lyrics
                         THEN /\ fs' = WriteFile(fs,
                                    append_to_path_buf(trk.track_path_no_ext,
                                                       ".lrc"),
                                    <<"lrc", <<lyrics_text>>>>)
                              /\ trk' = Written(t2)
                         ELSE /\ fs' = fs
                              /\ trk' = t2
                      /\ parsed_meta' = [parsed_meta EXCEPT
                            !.timed_lyrics = Some(lyrics_text)]
                 ELSE /\ fs' = fs
                      /\ trk' = t2
                      /\ parsed_meta' = [parsed_meta EXCEPT
                            !.untimed_lyrics = Some(lyrics_text)]
              /\ pc' = "write_tags"
    /\ UNCHANGED <<config, IS_WINDOWS, url_num, res, alb, art, pl, url_log,
                   runs>>

\* A tag is the sequence of the fields set in it, each a pair of its key and
\* its value. main::set_vorbis and main::set_vorbis_num
set_vorbis(tag, key, value) ==
    IF value # <<>> THEN Append(tag, <<key, value>>) ELSE tag
set_vorbis_num(tag, key, n) ==
    IF n > 0 THEN Append(tag, <<key, to_string(n)>>) ELSE tag

\* the text of lyrics, which are modelled by the id of their track
LyricsText(lyrics) == <<"l">> \o to_string(lyrics)

\* main::write_flac_tags
write_flac_tags(meta) ==
    LET t1 == set_vorbis(<<>>, "ALBUM", meta.album_title)
        t2 == set_vorbis(t1, "ALBUMARTIST", meta.album_artist)
        t3 == set_vorbis(t2, "ARTIST", meta.artist)
        t4 == set_vorbis(t3, "LABEL", meta.label)
        t5 == set_vorbis(t4, "TITLE", meta.title)
        t6 == set_vorbis_num(t5, "TRACKNUMBER", meta.track_num)
        t7 == set_vorbis_num(t6, "TRACKTOTAL", meta.track_total)
        t8 == IF meta.cover_data # <<>>
              THEN Append(t7, <<"FLACCoverFront", meta.cover_data>>) ELSE t7
        t9 == IF meta.genre # None
              THEN set_vorbis(t8, "GENRE", meta.genre[1]) ELSE t8
        t10 == IF meta.year # None
               THEN set_vorbis_num(t9, "YEAR", meta.year[1]) ELSE t9
        t11 == IF meta.untimed_lyrics # None
               THEN set_vorbis(t10, "UNSYNCEDLYRICS",
                               LyricsText(meta.untimed_lyrics[1]))
               ELSE t10
    IN  IF meta.timed_lyrics # None
        THEN set_vorbis(t11, "LYRICS", LyricsText(meta.timed_lyrics[1]))
        ELSE t11

\* main::write_mp3_tags; the numbers are given as the text of their frames
write_mp3_tags(meta) ==
    LET t1 == <<<<"album", meta.album_title>>,
                <<"album_artist", meta.album_artist>>,
                <<"artist", meta.artist>>,
                <<"title", meta.title>>,
                <<"track", to_string(meta.track_num)>>,
                <<"total_tracks", to_string(meta.track_total)>>>>
        t2 == IF meta.cover_data # <<>>
              THEN Append(t1, <<"MP3CoverFront", meta.cover_data>>) ELSE t1
        t3 == IF meta.genre # None
              THEN Append(t2, <<"genre", meta.genre[1]>>) ELSE t2
        t4 == IF meta.year # None
              THEN Append(t3, <<"year", to_string(meta.year[1])>>) ELSE t3
        t5 == IF meta.untimed_lyrics # None
              THEN Append(t4, <<"USLT", LyricsText(meta.untimed_lyrics[1])>>)
              ELSE t4
    IN  IF meta.timed_lyrics # None
        THEN Append(t5, <<"SYLT", LyricsText(meta.timed_lyrics[1])>>)
        ELSE t5

\* main::write_mp4_tags; set_track sets the number and the total
write_mp4_tags(meta) ==
    LET t1 == <<<<"album", meta.album_title>>,
                <<"album_artist", meta.album_artist>>,
                <<"artist", meta.artist>>,
                <<"title", meta.title>>,
                <<"track", to_string(meta.track_num)>>,
                <<"total_tracks", to_string(meta.track_total)>>>>
        t2 == IF meta.cover_data # <<>>
              THEN Append(t1, <<"covr", meta.cover_data>>) ELSE t1
        t3 == IF meta.genre # None
              THEN Append(t2, <<"genre", meta.genre[1]>>) ELSE t2
        t4 == IF meta.year # None
              THEN Append(t3, <<"year", to_string(meta.year[1])>>) ELSE t3
    IN  IF meta.timed_lyrics # None
        THEN Append(t4, <<"lyrics", LyricsText(meta.timed_lyrics[1])>>)
        ELSE IF meta.untimed_lyrics # None
        THEN Append(t4, <<"lyrics", LyricsText(meta.untimed_lyrics[1])>>)
        ELSE t4

\* main::write_tags, the match on the codec
write_tags_match(codec, meta) ==
    CASE codec = "flac-mp4" -> write_flac_tags(meta)
      [] codec = "mp3-mp4" -> write_mp3_tags(meta)
      [] codec \in {"aac-mp4", "he-aac-mp4"} -> write_mp4_tags(meta)
      [] OTHER -> <<>>

\* process_track: write_tags into the file at track_path, and Ok(())
write_tags ==
    /\ pc = "write_tags"
    /\ LET t == Stage(trk, "write_tags")
       IN  \/ /\ Fault
              /\ Returns(t, <<"Err", "write_tags">>)
              /\ fs' = fs
           \/ /\ NoFault
              /\ fs' = WriteFile(fs, trk.track_path,
                          <<"tagged", fs[trk.track_path][2]>>)
              /\ Returns([Written(t) EXCEPT
                             !.tags = write_tags_match(trk.info.codec,
                                                       parsed_meta)],
                         <<"Ok", "written">>)
    /\ UNCHANGED <<config, IS_WINDOWS, url_num, res, alb, art, pl,
                   parsed_meta, url_log, runs>>

(***************************************************************************)
(* process_user_playlist                                                   *)
(***************************************************************************)
\* main::parse_track_meta_playlist on the fresh parse_album_meta_playlist
parse_track_meta_playlist(meta, id, track_meta, track_num) ==
    [meta EXCEPT
       !.artist = <<"a">>,
       !.title = TitleOf(id),
       !.track_num = track_num,
       !.lyrics_avail =
           IF track_meta.lyrics_info # None
           THEN check_availibility(track_meta.lyrics_info[1])
           ELSE meta.lyrics_avail]

\* process_user_playlist up to its loop: the uuid of the playlist, its
\* metadata, its folder
process_user_playlist_begin ==
    /\ pc = "process_user_playlist"
    /\ \/ \* a request or create_dir_all fails
          /\ Fault
          /\ res' = "Err"
          /\ pc' = "main_res"
          /\ pl' = pl
       \/ /\ NoFault
          /\ \E present \in BOOLEAN, available \in BOOLEAN,
                n \in 0..MaxPlaylistLen :
               IF ~present \/ ~available
               THEN \* not among the user's playlists, private, unavailable
                    /\ res' = "Err"
                    /\ pc' = "main_res"
                    /\ pl' = pl
               ELSE /\ pl' = [pl EXCEPT
                          !.track_total = n,
                          !.plist_path =
                              join(out_path, sanitise(<<"P">>, TRUE))]
                    /\ pc' = "playlist_loop"
                    /\ res' = res
    /\ UNCHANGED <<config, IS_WINDOWS, fs, url_num, alb, art, parsed_meta,
                   trk, url_log, runs>>

\* the loop of process_user_playlist at a track it skips: uploaded by a
\* user, not available, or of an album that is not available
playlist_skip ==
    /\ pc = "playlist_loop"
    /\ pl.k < pl.track_total
    /\ \E track \in PlaylistTrack :
         \/ track.track_source # "OWN"
         \/ ~track.available
         \/ track.albums # <<>> /\ ~track.albums[1]
    /\ pl' = [pl EXCEPT !.k = pl.k + 1]
    /\ UNCHANGED <<config, IS_WINDOWS, fs, pc, url_num, res, alb, art,
                   parsed_meta, trk, url_log, faults, runs>>

\* the loop of process_user_playlist at an available track with no album:
\* track.albums[0] is out of bounds, the program panics
playlist_panic ==
    /\ pc = "playlist_loop"
    /\ pl.k < pl.track_total
    /\ \E track \in PlaylistTrack :
         /\ track.track_source = "OWN"
         /\ track.available
         /\ track.albums = <<>>
    /\ pc' = "panicked"
    /\ UNCHANGED <<config, IS_WINDOWS, fs, url_num, res, alb, art, pl,
                   parsed_meta, trk, url_log, faults, runs>>

\* the loop of process_user_playlist at a track it processes: the fresh
\* metadata, the cover, the call of process_track
playlist_call_track ==
    /\ pc = "playlist_loop"
    /\ pl.k < pl.track_total
    /\ \E track \in PlaylistTrack :
         /\ track.track_source = "OWN"
         /\ track.available
         /\ track.albums # <<>> /\ track.albums[1]
         /\ \/ \* get_cover_data fails: process_user_playlist returns the Err
               /\ track.cover_uri # None
               /\ Fault
               /\ res' = "Err"
               /\ pc' = "main_res"
               /\ UNCHANGED <<parsed_meta, trk>>
            \/ /\ NoFault
               /\ parsed_meta' = parse_track_meta_playlist(
                      [parse_album_meta(AlbumA, as_u16(pl.track_total))
                       EXCEPT !.cover_data =
                           IF track.cover_uri # None
                           THEN AlbumA.cover_body ELSE <<>>],
                      pl.k + 1, track, as_u16(pl.k + 1))
               /\ Call("playlist", pl.k + 1, pl.plist_path)
               /\ res' = res
    /\ UNCHANGED <<config, IS_WINDOWS, fs, url_num, alb, art, pl, url_log,
                   runs>>

\* the loop of process_user_playlist after process_track returned
playlist_track_done ==
    /\ pc = "track_ret"
    /\ trk.caller = "playlist"
    /\ pl' = [pl EXCEPT
          !.k = pl.k + 1,
          !.invoked = Append(pl.invoked, [id |-> trk.track_id,
                                          outcome |-> trk.outcome,
                                          sleeps |-> Sleeps])]
    /\ trk' = NoTrack
    /\ pc' = "playlist_loop"
    /\ UNCHANGED <<config, IS_WINDOWS, fs, url_num, res, alb, art,
                   parsed_meta, url_log, faults, runs>>

\* the end of the loop of process_user_playlist: Ok(())
playlist_return ==
    /\ pc = "playlist_loop"
    /\ pl.k = pl.track_total
    /\ res' = "Ok"
    /\ pc' = "main_res"
    /\ UNCHANGED <<config, IS_WINDOWS, fs, url_num, alb, art, pl, parsed_meta,
                   trk, url_log, faults, runs>>

(***************************************************************************)
(* process_artist_albums                                                   *)
(***************************************************************************)
\* process_artist_albums up to its loop: the artist's metadata and folder
process_artist_albums_begin ==
    /\ pc = "process_artist_albums"
    /\ \/ \* get_artist_meta fails
          /\ Fault
          /\ res' = "Err"
          /\ pc' = "main_res"
          /\ art' = art
       \/ /\ NoFault
          /\ \E album_total \in 0..MaxArtistAlbums :
               IF album_total < 1
               THEN /\ res' = "Err"
                    /\ pc' = "main_res"
                    /\ art' = art
               ELSE /\ art' = [art EXCEPT
                          !.albums = album_total,
                          !.artist_path =
                              join(out_path, sanitise(<<"R">>, TRUE))]
                    /\ pc' = "artist_loop"
                    /\ res' = res
    /\ UNCHANGED <<config, IS_WINDOWS, fs, url_num, alb, pl, parsed_meta, trk,
                   url_log, runs>>

\* the loop of process_artist_albums: the call of process_album
artist_call_album ==
    /\ pc = "artist_loop"
    /\ art.album_num < art.albums
    /\ alb' = [NoAlbum EXCEPT !.caller = "artist", !.track_id = 0,
                              !.base = art.artist_path]
    /\ pc' = "process_album"
    /\ UNCHANGED <<config, IS_WINDOWS, fs, url_num, res, art, pl, parsed_meta,
                   trk, url_log, faults, runs>>

\* the loop of process_artist_albums after process_album returned: "Album
\* failed" for an Err, then the next album
artist_album_done ==
    /\ pc = "artist_res"
    /\ art' = [art EXCEPT !.album_num = art.album_num + 1]
    /\ res' = ""
    /\ pc' = "artist_loop"
    /\ UNCHANGED <<config, IS_WINDOWS, fs, url_num, alb, pl, parsed_meta, trk,
                   url_log, faults, runs>>

\* the end of the loop of process_artist_albums: Ok(())
artist_return ==
    /\ pc = "artist_loop"
    /\ art.album_num = art.albums
    /\ res' = "Ok"
    /\ pc' = "main_res"
    /\ UNCHANGED <<config, IS_WINDOWS, fs, url_num, alb, art, pl, parsed_meta,
                   trk, url_log, faults, runs>>

(***************************************************************************)
(* The process and its runs                                                *)
(***************************************************************************)
Running == pc \notin {"exit", "fatal", "panicked"}

\* the next run: main from its start, with the same configuration, on the
\* file system the run before has left
NextRun ==
    /\ runs < MaxRuns
    /\ runs' = runs + 1
    /\ pc' = "main"
    /\ url_num' = 0
    /\ res' = ""
    /\ alb' = NoAlbum
    /\ art' = NoArtist
    /\ pl' = NoPlaylist
    /\ parsed_meta' = NoMeta
    /\ trk' = NoTrack
    /\ url_log' = <<>>
    /\ UNCHANGED <<config, IS_WINDOWS, fs>>

\* the process is killed where it is, and the user starts the program again
interrupt ==
    /\ Running
    /\ pc # "main"
    /\ Fault
    /\ NextRun

\* the program has ended, and the user starts it again
rerun ==
    /\ ~Running
    /\ NoFault
    /\ NextRun

(***************************************************************************)
(* The numbers of a track, for lists of any length: what the loops of      *)
(* process_album and process_user_playlist hand to process_track as        *)
(* meta.track_num and meta.track_total, from the lengths of the lists.     *)
(***************************************************************************)
\* lengths of a volume or a playlist, around the ends of the range of u16
ListLengths == {0, 1, 2, 3, 65534, 65535, 65536, 65537}

RECURSIVE Sum(_)
Sum(lens) == IF lens = <<>> THEN 0 ELSE Head(lens) + Sum(Tail(lens))

\* the positions in a list of this length that are looked at: its ends
Positions(len) == {i \in {1, 2, len - 1, len} : 1 <= i /\ i <= len}

InitCounts ==
    /\ InitWith({<<>>}, {DefaultTrackTemplate}, {FALSE}, {TRUE},
             {FALSE})
    /\ ~config.write_lyrics

\* process_album at the call of process_track for the track at position i
\* of volume v, the volumes given by their lengths
count_album ==
    /\ pc = "main"
    /\ \E n \in 1..MaxVolumes : \E lens \in [1..n -> ListLengths] :
       \E v \in 1..n : \E i \in Positions(lens[v]) :
       \E is_track_only \in BOOLEAN, track \in Volume :
         /\ track.available
         /\ parsed_meta' = parse_track_meta(
                parse_album_meta(AlbumA, as_u16(Sum(lens))), 1, track,
                as_u16(IF is_track_only THEN 1 ELSE i), is_track_only)
    /\ pc' = "process_track"
    /\ UNCHANGED <<config, IS_WINDOWS, fs, url_num, res, alb, art, pl, trk,
                   url_log, faults, runs>>

\* process_user_playlist at the call of process_track for the track at
\* position i of a playlist of this length
count_playlist ==
    /\ pc = "main"
    /\ \E len \in ListLengths : \E i \in Positions(len) :
       \E track \in PlaylistTrack :
         parsed_meta' = parse_track_meta_playlist(
             parse_album_meta(AlbumA, as_u16(len)), 1, track, as_u16(i))
    /\ pc' = "process_track"
    /\ UNCHANGED <<config, IS_WINDOWS, fs, url_num, res, alb, art, pl, trk,
                   url_log, faults, runs>>

NextCounts ==
    \/ count_album
    \/ count_playlist

SpecCounts == InitCounts /\ [][NextCounts]_vars

(***************************************************************************)
(* One track of an album, by its URL, from albums whose volumes hold more  *)
(* than one track: the run up to the existence check of process_track.     *)
(***************************************************************************)
MaxTrackOnlyVolLen == 2

TrackOnlyVolumes ==
    UNION {{VolumesOf(lens, 1) : lens \in [1..n -> 0..MaxTrackOnlyVolLen]}
           : n \in 0..MaxVolumes}

InitTrackOnly ==
    InitWith({<<[kind |-> "album", first |-> "A", second |-> t]>>
                 : t \in 1..(MaxVolumes * MaxTrackOnlyVolLen)},
             {DefaultTrackTemplate}, {FALSE}, {TRUE},
             {FALSE})

process_album_track_only == process_album_of(TrackOnlyVolumes, {AlbumA})

NextTrackOnly ==
    \/ main_startup
    \/ main_dispatch
    \/ process_album_track_only
    \/ album_call_track
    \/ get_file_info
    \/ check_exists

SpecTrackOnly == InitTrackOnly /\ [][NextTrackOnly]_vars

(***************************************************************************)
(* utils::format_track_number on numbers from the whole range of u16       *)
(***************************************************************************)
\* track numbers and totals: the ends of the range, and the numbers where
\* the count of digits changes
TrackNumbers ==
    {0, 1, 3, 7, 9, 10, 42, 99, 100, 999, 1000, 9999, 10000, 65535}

\* the program inside one of its functions, with this metadata and track
\* and these files
InitAt(position, meta, t, files) ==
    /\ config = [urls |-> <<>>, write_lyrics |-> FALSE,
                 track_template |-> DefaultTrackTemplate,
                 write_covers |-> TRUE, sleep |-> FALSE]
    /\ IS_WINDOWS = FALSE
    /\ fs = files
    /\ pc = position
    /\ url_num = 0
    /\ res = ""
    /\ alb = NoAlbum
    /\ art = NoArtist
    /\ pl = NoPlaylist
    /\ parsed_meta = meta
    /\ trk = t
    /\ url_log = <<>>
    /\ faults = 0
    /\ runs = 1

InitNumbers ==
    \E track_num, track_total \in TrackNumbers :
        InitAt("format_track_number",
               [NoMeta EXCEPT !.track_num = track_num,
                              !.track_total = track_total],
               NoTrack, [q \in {} |-> <<>>])

\* let padding = utils::format_track_number(meta.track_num, meta.track_total)
call_format_track_number ==
    /\ pc = "format_track_number"
    /\ trk' = [trk EXCEPT !.padding = format_track_number(
                                          parsed_meta.track_num,
                                          parsed_meta.track_total)]
    /\ pc' = "formatted"
    /\ UNCHANGED <<config, IS_WINDOWS, fs, url_num, res, alb, art, pl,
                   parsed_meta, url_log, faults, runs>>

NextNumbers == call_format_track_number

SpecNumbers == InitNumbers /\ [][NextNumbers]_vars

\* one run over at most MaxRunUrls URLs, of a build for Windows or for
\* another target
InitTargets ==
    InitWith({u \in UrlLists : Len(u) <= MaxRunUrls}, {DefaultTrackTemplate},
             BOOLEAN, {TRUE},
             {FALSE})

\* one run over at most MaxRunUrls URLs, with write_covers set or not, where
\* the albums differ in their artists, genre, year and cover
InitAlbums ==
    InitWith({u \in UrlLists : Len(u) <= MaxRunUrls}, {DefaultTrackTemplate},
             {FALSE}, BOOLEAN,
             {FALSE})

process_album_any == process_album_of(AlbumVolumes, AlbumResult)

\* every step but the first one of process_album
OtherSteps ==
    \/ main_startup
    \/ main_invalid_url
    \/ main_dispatch
    \/ main_url_done
    \/ main_exit
    \/ album_track_unavailable
    \/ album_call_track
    \/ album_track_done
    \/ album_return
    \/ get_file_info
    \/ check_exists
    \/ download_open
    \/ download_read
    \/ decrypt_track
    \/ mux_spawn
    \/ mux_exit
    \/ remove_incomp
    \/ remove_incomp_dec
    \/ get_lyrics_text
    \/ write_tags
    \/ process_user_playlist_begin
    \/ playlist_skip
    \/ playlist_panic
    \/ playlist_call_track
    \/ playlist_track_done
    \/ playlist_return
    \/ process_artist_albums_begin
    \/ artist_call_album
    \/ artist_album_done
    \/ artist_return

(***************************************************************************)
(* YandexMusicClient::create_signature                                     *)
(***************************************************************************)
\* the printable characters of ASCII in their order, from the space (32);
\* the grave accent (96) by its name
Ascii ==
    <<" ", "!", "\"", "#", "$", "%", "&", "'", "(", ")", "*", "+", ",", "-",
      ".", "/", "0", "1", "2", "3", "4", "5", "6", "7", "8", "9", ":", ";",
      "<", "=", ">", "?", "@", "A", "B", "C", "D", "E", "F", "G", "H", "I",
      "J", "K", "L", "M", "N", "O", "P", "Q", "R", "S", "T", "U", "V", "W",
      "X", "Y", "Z", "[", "\\", "]", "^", "_", "grave", "a", "b", "c", "d", "e",
      "f", "g", "h", "i", "j", "k", "l", "m", "n", "o", "p", "q", "r", "s",
      "t", "u", "v", "w", "x", "y", "z", "{", "|", "}", "~">>

\* str::as_bytes
as_bytes(str) ==
    [i \in 1..Len(str) |->
        31 + (CHOOSE k \in 1..Len(Ascii) : Ascii[k] = str[i])]

SECRET ==
    <<"k", "z", "q", "U", "4", "X", "h", "f", "C", "a", "Y", "6", "B", "6",
      "J", "T", "H", "O", "D", "e", "q", "5">>

\* Hmac<Sha256>: new_from_slice(key), update(msg), finalize().into_bytes().
\* The digest has 32 bytes, each of them depends on the key, on every byte
\* of the message and on its place; the model has a keyed checksum in the
\* place of SHA-256.
RECURSIVE Mix(_, _, _, _)
Mix(bytes, i, lo, hi) ==
    IF lo > hi THEN 0
    ELSE IF lo = hi THEN (bytes[lo] + i) * (lo + i)
    ELSE LET mid == (lo + hi) \div 2
         IN  (Mix(bytes, i, lo, mid) + Mix(bytes, i, mid + 1, hi)) % 65521
HmacSha256(key, msg) ==
    LET bytes == key \o msg
    IN  [i \in 1..32 |-> Mix(bytes, i, 1, Len(bytes)) % 256]

\* base64::engine::general_purpose::STANDARD.encode: three bytes give four
\* characters of the alphabet, the rest of one or two bytes is padded with =
Base64Alphabet ==
    <<"A", "B", "C", "D", "E", "F", "G", "H", "I", "J", "K", "L", "M", "N",
      "O", "P", "Q", "R", "S", "T", "U", "V", "W", "X", "Y", "Z", "a", "b",
      "c", "d", "e", "f", "g", "h", "i", "j", "k", "l", "m", "n", "o", "p",
      "q", "r", "s", "t", "u", "v", "w", "x", "y", "z", "0", "1", "2", "3",
      "4", "5", "6", "7", "8", "9", "+", "/">>
RECURSIVE encode(_)
encode(bytes) ==
    CASE Len(bytes) = 0 -> <<>>
      [] Len(bytes) = 1 ->
            <<Base64Alphabet[(bytes[1] \div 4) + 1],
              Base64Alphabet[((bytes[1] % 4) * 16) + 1], "=", "=">>
      [] Len(bytes) = 2 ->
            <<Base64Alphabet[(bytes[1] \div 4) + 1],
              Base64Alphabet[((bytes[1] % 4) * 16 + bytes[2] \div 16) + 1],
              Base64Alphabet[((bytes[2] % 16) * 4) + 1], "=">>
      [] OTHER ->
            <<Base64Alphabet[(bytes[1] \div 4) + 1],
              Base64Alphabet[((bytes[1] % 4) * 16 + bytes[2] \div 16) + 1],
              Base64Alphabet[((bytes[2] % 16) * 4 + bytes[3] \div 64) + 1],
              Base64Alphabet[(bytes[3] % 64) + 1]>>
            \o encode(SubSeq(bytes, 4, Len(bytes)))

\* create_signature as it would be with the whole of the encoded digest
create_signature_whole(ts, track_id, quality) ==
    encode(HmacSha256(as_bytes(SECRET),
                      as_bytes(ts \o track_id \o quality
                               \o <<"f", "l", "a", "c", "a", "a", "c", "h",
                                     "e", "-", "a", "a", "c", "m", "p", "3",
                                     "r", "a", "w">>)))

\* YandexMusicClient::create_signature
create_signature(ts, track_id, quality) ==
    LET msg == ts \o track_id \o quality
               \o <<"f", "l", "a", "c", "a", "a", "c", "h", "e", "-", "a",
                     "a", "c", "m", "p", "3", "r", "a", "w">>
        hmac_bytes == HmacSha256(as_bytes(SECRET), as_bytes(msg))
        base64_encoded == encode(hmac_bytes)
    IN  SubSeq(base64_encoded, 1, Len(base64_encoded) - 1)

\* the timestamps, track ids and qualities of the calls
Timestamps == {to_string(n) : n \in {0, 1, 999999999, 1700000000, 1762000000}}
SignedTrackIds == {1, 2, 42, 1000, 65535}
Qualities ==
    {<<"l", "o", "s", "s", "l", "e", "s", "s">>, <<"h", "q">>, <<"n", "q">>,
     <<"l", "q">>}

InitSignature ==
    \E ts \in Timestamps, id \in SignedTrackIds, quality \in Qualities :
        InitAt("create_signature", NoMeta,
               [NoTrack EXCEPT !.ts = ts, !.track_id = id,
                               !.quality = quality],
               [q \in {} |-> <<>>])

\* let signature = self.create_signature(&ts, track_id, quality)?
call_create_signature ==
    /\ pc = "create_signature"
    /\ trk' = [trk EXCEPT !.sign = create_signature(
                                       trk.ts, to_string(trk.track_id),
                                       trk.quality)]
    /\ pc' = "signed"
    /\ UNCHANGED <<config, IS_WINDOWS, fs, url_num, res, alb, art, pl,
                   parsed_meta, url_log, faults, runs>>

NextSignature == call_create_signature

SpecSignature == InitSignature /\ [][NextSignature]_vars

(***************************************************************************)
(* decrypt_track on the bytes of a file                                    *)
(***************************************************************************)
\* hex::decode: two hex digits give a byte; a string of odd length or with
\* another character is an error (None)
HexDigits ==
    <<"0", "1", "2", "3", "4", "5", "6", "7", "8", "9", "a", "b", "c", "d",
      "e", "f">>
hex_decode(str) ==
    IF \/ Len(str) % 2 = 1
       \/ \E i \in 1..Len(str) : \A k \in 1..16 : HexDigits[k] # str[i]
    THEN None
    ELSE LET v(c) == (CHOOSE k \in 1..16 : HexDigits[k] = c) - 1
         IN  Some([i \in 1..(Len(str) \div 2) |->
                      16 * v(str[2 * i - 1]) + v(str[2 * i])])

\* the exclusive or of two bytes
RECURSIVE Xor(_, _)
Xor(a, b) ==
    IF a = 0 THEN b
    ELSE IF b = 0 THEN a
    ELSE 2 * Xor(a \div 2, b \div 2) + ((a + b) % 2)

\* Aes128: the block the cipher makes of a counter block under a key. The
\* 16 bytes depend on the key and on the counter; the model has a keyed
\* mixing of the counter in the place of the rounds of AES.
Aes128(key, counter) ==
    [i \in 1..16 |->
        (key[i] * 7 + key[((i + counter) % 16) + 1] * 13 + counter * 31 + i)
        % 256]

\* Ctr128BE<Aes128>::apply_keystream as it would be with a counter that
\* stays at the nonce
RECURSIVE apply_keystream_fixed(_, _, _)
apply_keystream_fixed(key, counter, data) ==
    IF data = <<>> THEN <<>>
    ELSE LET n == IF Len(data) < 16 THEN Len(data) ELSE 16
             block == Aes128(key, counter)
         IN  [i \in 1..n |-> Xor(data[i], block[i])]
             \o apply_keystream_fixed(key, counter,
                                      SubSeq(data, n + 1, Len(data)))

\* Ctr128BE<Aes128>::apply_keystream: block after block of the data is
\* xored with the cipher's block of the counter, which starts at the nonce
\* and goes up by one with every block
RECURSIVE apply_keystream(_, _, _)
apply_keystream(key, counter, data) ==
    IF data = <<>> THEN <<>>
    ELSE LET n == IF Len(data) < 16 THEN Len(data) ELSE 16
             block == Aes128(key, counter)
         IN  [i \in 1..n |-> Xor(data[i], block[i])]
             \o apply_keystream(key, counter + 1,
                                SubSeq(data, n + 1, Len(data)))

\* the keys of the file-info answer: two of 16 bytes, one of 8 bytes, one
\* that is not hex
HexKeys ==
    {<<"0", "0", "1", "1", "2", "2", "3", "3", "4", "4", "5", "5", "6", "6",
       "7", "7", "8", "8", "9", "9", "a", "a", "b", "b", "c", "c", "d", "d",
       "e", "e", "f", "f">>,
     <<"f", "f", "f", "f", "f", "f", "f", "f", "f", "f", "f", "f", "f", "f",
       "f", "f", "0", "0", "0", "0", "0", "0", "0", "0", "0", "0", "0", "0",
       "0", "0", "0", "1">>,
     <<"0", "1", "2", "3", "4", "5", "6", "7", "8", "9", "a", "b", "c", "d",
       "e", "f">>,
     <<"k", "e", "y">>}

\* the bytes of the .incomplete file: none, less than a block, a block, more
\* than a block, more than two blocks
EncryptedFiles ==
    {[i \in 1..n |-> (seed * 37 + i * 11) % 256]
        : n \in {0, 1, 2, 16, 17, 33}, seed \in {0, 1, 100, 200, 255}}

InitDecrypt ==
    \E key \in HexKeys, enc_data \in EncryptedFiles :
        InitAt("decrypt_track", NoMeta,
               [NoTrack EXCEPT
                  !.info = [codec |-> "flac-mp4", key |-> key],
                  !.track_path_incomp = <<"1", ".incomplete">>,
                  !.track_path_incomp_dec = <<"1", ".incomplete_dec.mp4">>],
               [q \in {<<"1", ".incomplete">>} |-> <<"file", enc_data>>])

\* main::decrypt_track, byte by byte
decrypt_track_bytes ==
    /\ pc = "decrypt_track"
    /\ \/ \* fs::read or fs::write fails
          /\ Fault
          /\ Returns(trk, <<"Err", "decrypt_track">>)
          /\ fs' = fs
       \/ /\ NoFault
          /\ LET enc_data == fs[trk.track_path_incomp][2]
                 key_vec == hex_decode(trk.info.key)
             IN  IF key_vec = None \/ Len(key_vec[1]) # 16
                 THEN /\ Returns(trk, <<"Err", "key">>)
                      /\ fs' = fs
                 ELSE /\ fs' = WriteFile(fs, trk.track_path_incomp_dec,
                              <<"dec", apply_keystream(key_vec[1], 0,
                                                       enc_data)>>)
                      /\ trk' = Written(trk)
                      /\ pc' = "mux"
    /\ UNCHANGED <<config, IS_WINDOWS, url_num, res, alb, art, pl,
                   parsed_meta, url_log, runs>>

NextDecrypt == decrypt_track_bytes

SpecDecrypt == InitDecrypt /\ [][NextDecrypt]_vars

\* decrypt_track once more as it would be with a cipher that goes on with
\* the counter where the call before left it
decrypt_track_again_continued ==
    /\ pc = "mux"
    /\ \/ /\ Fault
          /\ Returns(trk, <<"Err", "decrypt_track">>)
          /\ fs' = fs
       \/ /\ NoFault
          /\ LET enc_data == fs[trk.track_path_incomp_dec][2]
                 key_vec == hex_decode(trk.info.key)
             IN  /\ fs' = WriteFile(fs, trk.track_path_incomp_dec,
                             <<"dec", apply_keystream(key_vec[1],
                                          (Len(enc_data) + 15) \div 16,
                                          enc_data)>>)
                 /\ trk' = Written(trk)
                 /\ pc' = "decrypted_twice"
    /\ UNCHANGED <<config, IS_WINDOWS, url_num, res, alb, art, pl,
                   parsed_meta, url_log, runs>>

\* main::decrypt_track once more, with the same key, on the file it wrote:
\* decrypt_track(&track_path_incomp_dec, &track_path_incomp_dec, key). The
\* call builds its cipher anew, with the nonce of zeros.
decrypt_track_again ==
    /\ pc = "mux"
    /\ \/ \* fs::read or fs::write fails
          /\ Fault
          /\ Returns(trk, <<"Err", "decrypt_track">>)
          /\ fs' = fs
       \/ /\ NoFault
          /\ LET enc_data == fs[trk.track_path_incomp_dec][2]
                 key_vec == hex_decode(trk.info.key)
             IN  /\ fs' = WriteFile(fs, trk.track_path_incomp_dec,
                             <<"dec", apply_keystream(key_vec[1], 0,
                                                      enc_data)>>)
                 /\ trk' = Written(trk)
                 /\ pc' = "decrypted_twice"
    /\ UNCHANGED <<config, IS_WINDOWS, url_num, res, alb, art, pl,
                   parsed_meta, url_log, runs>>

NextDecryptTwice ==
    \/ decrypt_track_bytes
    \/ decrypt_track_again

SpecDecryptTwice == InitDecrypt /\ [][NextDecryptTwice]_vars

Next ==
    \/ process_album_begin
    \/ OtherSteps

NextAlbums ==
    \/ process_album_any
    \/ OtherSteps

SpecAlbums == InitAlbums /\ [][NextAlbums]_vars

\* one run of the program
Spec == Init /\ [][Next]_vars

\* the runs of the program, one after the other, on one file system
NextRuns ==
    \/ Next
    \/ interrupt
    \/ rerun

SpecTargets == InitTargets /\ [][Next]_vars

\* one run over at most MaxRunUrls URLs, with the sleep option set or not
InitSleep ==
    InitWith({u \in UrlLists : Len(u) <= MaxRunUrls}, {DefaultTrackTemplate},
             {FALSE}, {TRUE}, BOOLEAN)

SpecSleep == InitSleep /\ [][Next]_vars

\* one run over at most MaxRunUrls URLs, with the default track template or
\* the template of the padded track number alone
InitTemplates ==
    InitWith({u \in UrlLists : Len(u) <= MaxRunUrls}, TrackTemplates,
             {FALSE}, {TRUE}, {FALSE})

SpecTemplates == InitTemplates /\ [][Next]_vars

SpecRuns == InitRuns /\ [][NextRuns]_vars

(***************************************************************************)
(* download_track on the responses of the file server                      *)
(***************************************************************************)
\* the tracks downloaded
DownloadedTrackIds == {1, 2}

\* process_track at its call of download_track, with or without an
\* .incomplete file left by an earlier run
InitDownload ==
    \E id \in DownloadedTrackIds, left \in BOOLEAN :
        InitAt("download_track", NoMeta,
               [NoTrack EXCEPT
                  !.track_id = id,
                  !.info = [codec |-> "flac-mp4", key |-> ""],
                  !.stages = <<"get_file_info">>,
                  !.reqs = <<"get_file_info">>,
                  !.orphans = left,
                  !.track_path = <<"1", ".flac">>,
                  !.track_path_incomp = <<"1", ".incomplete">>,
                  !.track_path_incomp_dec = <<"1", ".incomplete_dec.mp4">>],
               [q \in IF left THEN {<<"1", ".incomplete">>} ELSE {}
                   |-> <<"enc", <<>>>>])

NextDownload == download_open_any \/ download_read

SpecDownload == InitDownload /\ [][NextDownload]_vars

(***************************************************************************)
(* The names of the folders                                                *)
(***************************************************************************)
MaxNameLen == 3

\* the characters of the names the API gives: a letter, a space, a period,
\* a backslash, a slash, a colon
NameChars == {"A", " ", ".", "\\", "/", ":"}

RECURSIVE Strings(_)
Strings(n) ==
    IF n = 0 THEN {<<>>}
    ELSE Strings(n - 1)
         \cup {Append(str, c) : str \in {x \in Strings(n - 1) : Len(x) = n - 1},
                                c \in NameChars}

\* the names of artists, albums, playlists and their owners
Names == Strings(MaxNameLen)

\* config.album_template when the option is empty
DefaultAlbumTemplate == <<"{album_artist}", " ", "-", " ", "{album_title}">>

\* main::parse_album_template
parse_album_template(template, meta) ==
    parse_template(template,
        [x \in {"{album_artist}", "{album_title}", "{label}", "{year}"} |->
            CASE x = "{album_artist}" -> meta.album_artist
              [] x = "{album_title}" -> meta.album_title
              [] x = "{label}" -> meta.label
              [] OTHER -> IF meta.year = None THEN <<>>
                          ELSE to_string(meta.year[1])])

\* process_album, process_user_playlist or process_artist_albums at its
\* folder, with the names of the metadata
InitNames ==
    \/ \E album_artist, album_title \in Names :
          InitAt("album_folder",
                 [NoMeta EXCEPT !.album_artist = album_artist,
                                !.album_title = album_title],
                 NoTrack, [q \in {} |-> <<>>])
    \/ \E login, title \in Names :
          /\ InitAt("playlist_folder", NoMeta, NoTrack, [q \in {} |-> <<>>])
          /\ pl = [NoPlaylist EXCEPT !.login = login, !.title = title]
    \/ \E name \in Names :
          /\ InitAt("artist_folder", NoMeta, NoTrack, [q \in {} |-> <<>>])
          /\ art = [NoArtist EXCEPT !.name = name]

\* process_album: san_album_folder and album_path
album_folder ==
    /\ pc = "album_folder"
    /\ alb' = [alb EXCEPT
          !.album_path = join(out_path,
                              parse_album_template(DefaultAlbumTemplate,
                                                   parsed_meta))]
    /\ pc' = "named"
    /\ UNCHANGED <<config, IS_WINDOWS, fs, url_num, res, art, pl, parsed_meta,
                   trk, url_log, faults, runs>>

\* process_user_playlist: plist_folder, san_album_folder and plist_path
playlist_folder ==
    /\ pc = "playlist_folder"
    /\ LET plist_folder == pl.login \o <<" ", "-", " ">> \o pl.title
       IN  pl' = [pl EXCEPT
              !.plist_path = join(out_path, sanitise(plist_folder, TRUE))]
    /\ pc' = "named"
    /\ UNCHANGED <<config, IS_WINDOWS, fs, url_num, res, alb, art,
                   parsed_meta, trk, url_log, faults, runs>>

\* process_artist_albums: san_artist_folder and artist_path
artist_folder ==
    /\ pc = "artist_folder"
    /\ art' = [art EXCEPT
          !.artist_path = join(out_path, sanitise(art.name, TRUE))]
    /\ pc' = "named"
    /\ UNCHANGED <<config, IS_WINDOWS, fs, url_num, res, alb, pl,
                   parsed_meta, trk, url_log, faults, runs>>

NextNames == album_folder \/ playlist_folder \/ artist_folder

SpecNames == InitNames /\ [][NextNames]_vars

(***************************************************************************)
(* The track that is already there                                         *)
(***************************************************************************)
\* C1, as the code has it: when the existence test of process_track finds a
\* file at the computed final path, process_track returns "already exists"
\* having made one request, the file-info request that the path is computed
\* from, and no other; it has written nothing and the file system is as it
\* was. This holds at every invocation, so also at a second one for the same
\* track.
C1_SkipAfterFileInfo ==
    [][(/\ pc = "file_exists"
        /\ trk.track_path \in DOMAIN fs
        /\ faults' = faults)
       => (/\ pc' = "track_ret"
           /\ trk'.outcome = AlreadyExists
           /\ trk'.reqs = <<"get_file_info">>
           /\ trk'.stages = <<"get_file_info">>
           /\ trk'.writes = 0
           /\ fs' = fs)]_vars

\* C1 is reached: the second URL comes to a track that the first URL has
\* written, and process_track returns "already exists"
C1_Witness ==
    /\ pc = "track_ret"
    /\ trk.outcome = AlreadyExists
    /\ url_num = 1
    /\ trk.track_path \in DOMAIN fs
    /\ fs[trk.track_path][1] = "tagged"

\* C1 as the claim states it: "already exists" is returned after zero
\* network requests
C1_ZeroRequests ==
    (pc = "track_ret" /\ trk.outcome = AlreadyExists) => trk.reqs = <<>>

(***************************************************************************)
(* The final path and the temp files                                       *)
(***************************************************************************)
\* the paths that end in a file extension of parse_specs
IsFinalPath(p) == p # <<>> /\ p[Len(p)] \in {".flac", ".mp3", ".m4a"}

\* C2: a file is at a track's final path only if the container of the track
\* has been produced completely, also after a stage has failed. The output
\* of a muxer that is still running is unfinished by nature, so this is
\* stated of the states in which no muxer runs.
C2_FinalOnlyComplete ==
    pc # "mux_wait" =>
        \A p \in DOMAIN fs :
            IsFinalPath(p) => fs[p][1] \in {"container", "tagged"}

\* C3: when process_track returns Ok after it has downloaded the track, the
\* final file exists and neither temp file of the track exists
C3_SuccessLeavesNoTemp ==
    (pc = "track_ret" /\ trk.outcome = TrackWritten) =>
        /\ trk.track_path \in DOMAIN fs
        /\ trk.track_path_incomp \notin DOMAIN fs
        /\ trk.track_path_incomp_dec \notin DOMAIN fs

\* C3 is reached: process_track has downloaded, decrypted, muxed and tagged
\* a track and returns Ok
C3_Witness ==
    /\ pc = "track_ret"
    /\ trk.outcome = TrackWritten
    /\ trk.downloaded = MaxChunks
    /\ fs[trk.track_path] = <<"tagged", Payload(trk.track_id)>>

\* C4, as the code has it: the temp paths of a track are its base path with
\* ".incomplete" and with ".incomplete_dec.mp4" appended; and when
\* process_track found temp files of the track left behind and returns Ok,
\* the final file holds the payload of the track, tagged, and the temp files
\* are gone.
C4_OrphansOverwritten ==
    /\ trk.track_path_incomp # <<>> =>
          /\ trk.track_path_incomp =
                 trk.track_path_no_ext \o <<".incomplete">>
          /\ trk.track_path_incomp_dec =
                 trk.track_path_no_ext \o <<".incomplete_dec.mp4">>
    /\ (pc = "track_ret" /\ trk.outcome = TrackWritten /\ trk.orphans) =>
          /\ fs[trk.track_path] = <<"tagged", Payload(trk.track_id)>>
          /\ trk.track_path_incomp \notin DOMAIN fs
          /\ trk.track_path_incomp_dec \notin DOMAIN fs

\* C4 is reached: the first run was killed and left temp files of a track,
\* the second run has processed the track and returns Ok
C4_Witness ==
    /\ runs = 2
    /\ pc = "track_ret"
    /\ trk.orphans
    /\ trk.outcome = TrackWritten

\* C4 as the claim states it: the temp file of the decrypted data is the
\* base path with ".incomplete_dec" appended
C4_TempNames ==
    trk.track_path_incomp_dec # <<>> =>
        trk.track_path_incomp_dec =
            trk.track_path_no_ext \o <<".incomplete_dec">>

(***************************************************************************)
(* The stages of process_track                                             *)
(***************************************************************************)
IsPrefix(s, t) == Len(s) <= Len(t) /\ SubSeq(t, 1, Len(s)) = s
Range(s) == {s[i] : i \in DOMAIN s}

\* the calls of process_track, in the order of its text
StagesNoLyrics ==
    <<"get_file_info", "download_track", "decrypt_track", "mux",
      "remove_file", "write_tags">>
StagesWithLyrics ==
    <<"get_file_info", "download_track", "decrypt_track", "mux",
      "remove_file", "get_lyrics_text", "write_tags">>

\* C5, as the code has it: the stages of an execution of process_track are
\* the file-info request, the download, the decryption, the mux into the
\* final path, the removal of the temp files, the lyrics request when the
\* metadata says that there are lyrics, and write_tags last; each begins
\* when the one before has returned, and an Err of any of them is the end
\* of the execution.
C5_StageOrder ==
    /\ \/ IsPrefix(trk.stages, StagesNoLyrics)
       \/ IsPrefix(trk.stages, StagesWithLyrics)
    /\ (trk.outcome # <<>> /\ trk.outcome[1] = "Err") => pc = "track_ret"
    /\ trk.outcome = TrackWritten =>
          trk.stages \in {StagesNoLyrics, StagesWithLyrics}

\* C5 is reached: an execution with all the stages, the lyrics request too
C5_Witness ==
    /\ pc = "track_ret"
    /\ trk.outcome = TrackWritten
    /\ trk.stages = StagesWithLyrics

\* C5 as the claim states it: the lyrics request comes after write_tags
C5_LyricsAfterTags ==
    \A i, j \in DOMAIN trk.stages :
        (trk.stages[i] = "write_tags" /\ trk.stages[j] = "get_lyrics_text")
            => i < j

(***************************************************************************)
(* The codecs                                                              *)
(***************************************************************************)
\* the plain codec variants, the ones the file-info request names
PlainCodecs == {"flac", "mp3", "aac", "he-aac"}

\* C6: decrypt_track and mux are for the container-encrypted codec variants
\* only, and a track of a plain codec variant is processed without them: it
\* is not refused
C6_PlainProcessed ==
    (pc = "track_ret" /\ trk.info.codec \in PlainCodecs) =>
        trk.outcome # UnknownCodec

(***************************************************************************)
(* Errors of a track, of a URL                                             *)
(***************************************************************************)
\* process_album has returned from its loop, or before it
AlbumReturned == pc \in {"main_res", "artist_res"} /\ alb.caller # ""

\* C7: with a codec that parse_specs does not know, process_track returns
\* the Err of an unknown codec after the file-info request alone, with no
\* download and nothing written; and process_album, whatever track of it had
\* that Err, goes through all its tracks and returns Ok.
C7_UnknownCodecOnlyThatTrack ==
    /\ (pc = "track_ret" /\ trk.outcome = UnknownCodec) =>
          /\ trk.reqs = <<"get_file_info">>
          /\ trk.stages = <<"get_file_info">>
          /\ trk.writes = 0
          /\ trk.downloaded = 0
    /\ \A i \in DOMAIN alb.invoked :
          alb.invoked[i].outcome = UnknownCodec =>
              /\ alb.k >= i
              /\ AlbumReturned =>
                    res = "Ok" /\ alb.k = Len(alb.tracks)

\* C7 is reached: the first track of an album had an unknown codec, and the
\* second track of the album has been written
C7_Witness ==
    /\ pc = "track_ret"
    /\ trk.caller = "album"
    /\ trk.outcome = TrackWritten
    /\ Len(alb.invoked) = 1
    /\ alb.invoked[1].outcome = UnknownCodec

\* C8: process_album calls process_track once for each available track, in
\* the order of the volumes and of the tracks in them, whatever the calls
\* before have returned; and once in its loop it returns Ok, after the last
\* track.
C8_EachAvailableTrackOnce ==
    LET avail == SelectSeq(alb.seen, LAMBDA e : e.available)
        inflight == IF trk.caller = "album" THEN 1 ELSE 0
    IN  /\ Len(alb.seen) = alb.k + inflight
        /\ Len(alb.seen) <= Len(alb.tracks)
        /\ \A i \in DOMAIN alb.seen : alb.seen[i].id = alb.tracks[i].id
        /\ Len(alb.invoked) + inflight = Len(avail)
        /\ \A i \in DOMAIN alb.invoked : alb.invoked[i].id = avail[i].id
        /\ inflight = 1 => trk.track_id = avail[Len(avail)].id
        /\ (AlbumReturned /\ alb.tracks # <<>>) =>
              res = "Ok" /\ alb.k = Len(alb.tracks)

\* C8 is reached: process_album returns after two calls of process_track,
\* the first with an Err, the second with a track written
C8_Witness ==
    /\ pc = "main_res"
    /\ Len(alb.invoked) = 2
    /\ alb.invoked[1].outcome[1] = "Err"
    /\ alb.invoked[2].outcome = TrackWritten

\* C9: main goes through the URLs once each and in order, and once in its
\* loop the run ends only behind the last URL
C9_EachUrlOnce ==
    /\ Len(url_log) = url_num
    /\ \A i \in DOMAIN url_log : url_log[i][1] = i
    /\ ~Running =>
          \/ pc = "fatal" /\ url_log = <<>>
          \/ pc = "exit" /\ Len(url_log) = Len(config.urls)

\* C10: a lyrics request is made only when config.write_lyrics is set
C10_LyricsOnlyIfConfigured ==
    "get_lyrics_meta" \in Range(trk.reqs) => config.write_lyrics

(***************************************************************************)
(* The metadata of a track                                                 *)
(***************************************************************************)
\* C11: the lyrics that write_tags gets for a track are the ones fetched for
\* this track, or none: nothing is left in them from a track before. The
\* text of the lyrics of a track is modelled by the id of the track.
C11_NoCarryOver ==
    pc = "write_tags" =>
        /\ parsed_meta.timed_lyrics \in {None, Some(trk.track_id)}
        /\ parsed_meta.untimed_lyrics \in {None, Some(trk.track_id)}

\* C12: at every call of process_track, from process_album and from
\* process_user_playlist, 1 <= meta.track_num <= meta.track_total
C12_TrackNumInRange ==
    pc = "process_track" =>
        /\ 1 <= parsed_meta.track_num
        /\ parsed_meta.track_num <= parsed_meta.track_total

\* C13: a track processed by its own URL gets the track number, the track
\* total and the final path it gets when its whole album is processed
C13_TrackOnlyAsWholeAlbum ==
    pc = "download_track" /\ parsed_meta.is_track_only =>
        \A e \in Range(LoopOrder(alb.volumes)) :
            e.id = trk.track_id =>
                LET whole == [parsed_meta EXCEPT
                                 !.track_num = as_u16(e.track_num),
                                 !.is_track_only = FALSE]
                    padding == format_track_number(whole.track_num,
                                                   whole.track_total)
                IN  /\ parsed_meta.track_num = whole.track_num
                    /\ parsed_meta.track_total = as_u16(SumLen(alb.volumes))
                    /\ trk.track_path = append_to_path_buf(
                           join(trk.album_path,
                                parse_track_template(config.track_template,
                                                     whole, padding)),
                           trk.file_ext)

\* the count of decimal digits of a u16, and the number a string of decimal
\* digits stands for
DigitCount(n) ==
    CASE n < 10 -> 1 [] n < 100 -> 2 [] n < 1000 -> 3 [] n < 10000 -> 4
      [] OTHER -> 5

RECURSIVE Value(_)
Value(digits) ==
    IF digits = <<>> THEN 0
    ELSE 10 * Value(SubSeq(digits, 1, Len(digits) - 1))
         + (CHOOSE d \in 0..9 : DigitChars[d + 1] = digits[Len(digits)])

\* C14: for track_num <= track_total, format_track_number gives track_num in
\* decimal digits, with zeros in front up to the count of digits of
\* track_total: as many characters as track_total has digits, all of them
\* digits, standing for track_num
C14_PaddedToTotal ==
    pc = "formatted" /\ parsed_meta.track_num <= parsed_meta.track_total =>
        /\ Len(trk.padding) = DigitCount(parsed_meta.track_total)
        /\ \A i \in 1..Len(trk.padding) : trk.padding[i] \in Range(DigitChars)
        /\ Value(trk.padding) = parsed_meta.track_num

\* track 3 of 42 is "03"
C14_Witness ==
    /\ pc = "formatted"
    /\ parsed_meta.track_num = 3 /\ parsed_meta.track_total = 42
    /\ trk.padding = <<"0", "3">>

\* the path of the track from the template, as process_track builds it
\* before the existence check, and the path of the fallback
TemplatedPath ==
    append_to_path_buf(
        join(trk.album_path,
             parse_track_template(config.track_template, parsed_meta,
                                  trk.padding)),
        trk.file_ext)
FallbackPath ==
    append_to_path_buf(join(trk.album_path, trk.padding), trk.file_ext)
PastExistenceCheck ==
    /\ pc \notin {"get_file_info", "file_exists"}
    /\ trk.track_path # <<>>
TooLong == Len(TemplatedPath) > MaxPathLen

NumericKeys ==
    {"TRACKNUMBER", "TRACKTOTAL", "YEAR", "track", "total_tracks", "year"}
TextKeys ==
    {"ALBUM", "ALBUMARTIST", "ARTIST", "LABEL", "TITLE", "GENRE",
     "UNSYNCEDLYRICS", "LYRICS", "album", "album_artist", "artist", "title",
     "genre", "USLT", "SYLT", "lyrics"}
CoverKeys == {"FLACCoverFront", "MP3CoverFront", "covr"}
Fields(keys) == {i \in 1..Len(trk.tags) : trk.tags[i][1] \in keys}

\* C16: the track number, the track total and the year are in the tag of a
\* written track only when they are not zero
C16_NumbersOnlyNonZero ==
    \A i \in Fields(NumericKeys) : trk.tags[i][2] # <<"0">>

\* C17: a text field is in the tag of a written track only when its source
\* is not empty, and there is no genre field and no year field when the
\* album has no genre and no year
C17_TextOnlyNonEmpty ==
    trk.outcome = TrackWritten =>
        /\ \A i \in Fields(TextKeys) : trk.tags[i][2] # <<>>
        /\ parsed_meta.genre = None => Fields({"GENRE", "genre"}) = {}
        /\ parsed_meta.year = None => Fields({"YEAR", "year"}) = {}

\* C18: a cover is in the tag of a written track only when write_covers is
\* set and the cover has bytes, for the tracks of albums and of playlists,
\* and then it is the one picture of the tag
C18_CoverOnlyIfConfigured ==
    /\ \A i \in Fields(CoverKeys) :
           config.write_covers /\ trk.tags[i][2] # <<>>
    /\ Cardinality(Fields(CoverKeys)) <= 1

(***************************************************************************)
(* The signature of get-file-info                                          *)
(***************************************************************************)
\* the bytes that a text of base64 with its padding stands for
RECURSIVE Base64Bytes(_)
Base64Bytes(text) ==
    IF text = <<>> THEN <<>>
    ELSE LET v(i) == IF text[i] = "=" THEN 0
                     ELSE (CHOOSE k \in 1..64 : Base64Alphabet[k] = text[i]) - 1
             n == ((v(1) * 64 + v(2)) * 64 + v(3)) * 64 + v(4)
             three == <<n \div 65536, (n \div 256) % 256, n % 256>>
             pad == IF text[3] = "=" THEN 2 ELSE IF text[4] = "=" THEN 1 ELSE 0
         IN  SubSeq(three, 1, 3 - pad)
             \o Base64Bytes(SubSeq(text, 5, Len(text)))

\* C19: the signature is the base64 text of the HMAC of the secret over
\* ts, trackId, quality and "flacaache-aacmp3raw", in this order, without
\* its last character: with the = of the padding put back it stands for
\* the 32 bytes of the digest, and it has one character less, 43
C19_SignatureIsTruncatedDigest ==
    pc = "signed" =>
        /\ Len(trk.sign) = 43
        /\ \A i \in 1..Len(trk.sign) : trk.sign[i] \in Range(Base64Alphabet)
        /\ Base64Bytes(trk.sign \o <<"=">>) =
               HmacSha256(as_bytes(SECRET),
                          as_bytes(trk.ts \o to_string(trk.track_id)
                                   \o trk.quality
                                   \o <<"f", "l", "a", "c", "a", "a", "c",
                                         "h", "e", "-", "a", "a", "c", "m",
                                         "p", "3", "r", "a", "w">>))

\* a signature for the quality lossless
C19_Witness ==
    /\ pc = "signed"
    /\ trk.quality = <<"l", "o", "s", "s", "l", "e", "s", "s">>
    /\ trk.track_id = 42
    /\ Len(trk.sign) = 43

(***************************************************************************)
(* The decryption                                                          *)
(***************************************************************************)
\* AES-128-CTR with the IV of zeros, by its definition: the byte at place p
\* is xored with byte p of the key stream, which is the cipher's blocks of
\* the counters 0, 1, 2, ... one after the other
ReferenceCtr(key, data) ==
    [p \in 1..Len(data) |->
        Xor(data[p], Aes128(key, (p - 1) \div 16)[((p - 1) % 16) + 1])]

\* C20: what decrypt_track writes is the payload whose reference encryption
\* under the key is the file it read, and it is as long as that file
C20_DecryptInvertsReference ==
    pc = "mux" /\ trk.track_path_incomp_dec \in DOMAIN fs =>
        LET enc_data == fs[trk.track_path_incomp][2]
            payload == fs[trk.track_path_incomp_dec][2]
            key == hex_decode(trk.info.key)[1]
        IN  /\ Len(payload) = Len(enc_data)
            /\ ReferenceCtr(key, payload) = enc_data
            /\ ReferenceCtr(key, enc_data) = payload

\* a file of more than two blocks is decrypted
C20_Witness ==
    /\ pc = "mux"
    /\ trk.track_path_incomp_dec \in DOMAIN fs
    /\ Len(fs[trk.track_path_incomp_dec][2]) = 33
    /\ fs[trk.track_path_incomp_dec][2] # fs[trk.track_path_incomp][2]

\* the keys of 16 bytes
ValidKeys ==
    {hex_decode(key)[1] : key \in {k \in HexKeys : /\ hex_decode(k) # None
                                                   /\ Len(hex_decode(k)[1]) = 16}}

\* C21 as the spec states it: decrypting twice with the same key of 16
\* bytes is not the identity, there are a key and a payload for which
\* decrypt(decrypt(payload, key), key) differs from the payload
C21_TwiceNotIdentity ==
    pc = "decrypted_twice" =>
        \E key \in ValidKeys,
           payload \in EncryptedFiles \cup {fs[trk.track_path_incomp][2]} :
            apply_keystream(key, 0, apply_keystream(key, 0, payload))
                # payload

\* C21: decrypting twice with the same key of 16 bytes is the identity:
\* the file decrypt_track writes from its own output is, byte for byte,
\* the file it read first
C21_TwiceIsIdentity ==
    pc = "decrypted_twice" =>
        fs[trk.track_path_incomp_dec][2] = fs[trk.track_path_incomp][2]

\* a file of more than two blocks is decrypted twice
C21_Witness ==
    /\ pc = "decrypted_twice"
    /\ trk.writes = 2
    /\ Len(fs[trk.track_path_incomp_dec][2]) = 33
    /\ fs[trk.track_path_incomp_dec][2] = fs[trk.track_path_incomp][2]

(***************************************************************************)
(* The errors of a track                                                   *)
(***************************************************************************)
\* C22: with a key that is not the hex of 16 bytes, process_track returns
\* the Err of the key from decrypt_track: the stages end with decrypt_track,
\* mux has not been started, no decrypted file has been written and there
\* is no file at the final path; the loop of the album or of the playlist
\* goes on behind that track, and the album returns Ok after its last track
C22_BadKeyOnlyThatTrack ==
    /\ (trk.info.key # "" /\ ~KeyOk(trk.info.key)) =>
          /\ pc = "track_ret"
          /\ trk.outcome = Err("key")
          /\ trk.stages = <<"get_file_info", "download_track",
                            "decrypt_track">>
          /\ trk.track_path \notin DOMAIN fs
          /\ ~trk.orphans => trk.track_path_incomp_dec \notin DOMAIN fs
    /\ \A i \in DOMAIN alb.invoked :
          alb.invoked[i].outcome = Err("key") =>
              /\ alb.k >= i
              /\ AlbumReturned =>
                    res = "Ok" /\ alb.k = Len(alb.tracks)
    /\ \A i \in DOMAIN pl.invoked :
          pl.invoked[i].outcome = Err("key") => pl.k >= i

\* C22 is reached: the first track of an album had a key of 8 bytes, and
\* the second track of the album has been written
C22_Witness ==
    /\ pc = "track_ret"
    /\ trk.caller = "album"
    /\ trk.outcome = TrackWritten
    /\ Len(alb.invoked) = 1
    /\ alb.invoked[1].outcome = Err("key")

\* C23: download_track sends its request with the Range header bytes=0-;
\* when the status of the response is not 2xx, or the response declares no
\* content length, download_track has returned an error, and this
\* execution of process_track has created and written no file: an
\* .incomplete file is there only if an earlier run left it
C23_NoFileOnBadResponse ==
    trk.resp # <<>> =>
        /\ trk.resp[1].range = Some("bytes=0-")
        /\ (\/ trk.resp[1].status \notin 200..299
            \/ trk.resp[1].content_length = None) =>
              /\ pc = "track_ret"
              /\ trk.outcome = <<"Err", "download_track">>
              /\ trk.writes = 0
              /\ ~trk.orphans => trk.track_path_incomp \notin DOMAIN fs

\* String::as_bytes of a text of code points below 65536
RECURSIVE Utf8(_)
Utf8(text) ==
    IF text = <<>> THEN <<>>
    ELSE (IF text[1] < 128 THEN <<text[1]>>
          ELSE IF text[1] < 2048
               THEN <<192 + (text[1] \div 64), 128 + (text[1] % 64)>>
          ELSE <<224 + (text[1] \div 4096),
                 128 + ((text[1] \div 64) % 64),
                 128 + (text[1] % 64)>>)
         \o Utf8(Tail(text))

\* the bytes part are in the bytes whole, one after the other
Contains(whole, part) ==
    \E i \in 1..(Len(whole) + 1) :
        /\ i + Len(part) - 1 <= Len(whole)
        /\ SubSeq(whole, i, i + Len(part) - 1) = part

\* process_track has returned the error of mux, with mux its last stage
MuxFailed ==
    /\ pc = "track_ret"
    /\ trk.outcome = <<"Err", "mux">>
    /\ trk.stages[Len(trk.stages)] = "mux"
    /\ trk.tags = <<>>
    /\ \A i \in DOMAIN trk.stages : trk.stages[i] # "get_lyrics_text"
    /\ \A i \in DOMAIN trk.reqs : trk.reqs[i] # "get_lyrics_meta"

\* C24: when ffmpeg has exited with a status that is not zero, the text of
\* the error of mux contains the bytes of its standard error as they were
\* captured, and process_track has returned that error with no tags
\* written and no lyrics request
C24_StderrVerbatim ==
    trk.stderr # None =>
        /\ Contains(Utf8(trk.err_str), trk.stderr[1])
        /\ MuxFailed

\* C24, as the code has it: the text of the error of mux is "ffmpeg
\* failed: " and the standard error decoded as UTF-8, each byte that is no
\* UTF-8 replaced by U+FFFD; it has the captured bytes in it when they are
\* UTF-8; process_track has returned that error with no tags written and
\* no lyrics request
C24_StderrLossy ==
    trk.stderr # None =>
        /\ trk.err_str = ffmpeg_failed(from_utf8_lossy(trk.stderr[1]))
        /\ (\A i \in DOMAIN trk.err_str :
                trk.err_str[i] # REPLACEMENT_CHARACTER) =>
              Contains(Utf8(trk.err_str), trk.stderr[1])
        /\ MuxFailed

\* C24 is reached: ffmpeg has exited with a status that is not zero after
\* it had opened its output file, with the two bytes of one character on
\* its standard error, for a track with lyrics
C24_Witness ==
    /\ pc = "track_ret"
    /\ trk.stderr = Some(<<195, 169>>)
    /\ trk.err_str[Len(trk.err_str)] = 233
    /\ trk.writes >= 3
    /\ parsed_meta.lyrics_avail # None

(***************************************************************************)
(* The sleep option                                                        *)
(***************************************************************************)
\* C25: with the sleep option set, the program has slept between any two
\* tracks processed one after the other, those of one album and those of
\* one playlist too
C25_SleepBetweenTracks ==
    config.sleep =>
        /\ \A i \in 1..(Len(alb.invoked) - 1) :
              alb.invoked[i + 1].sleeps > alb.invoked[i].sleeps
        /\ \A i \in 1..(Len(pl.invoked) - 1) :
              pl.invoked[i + 1].sleeps > pl.invoked[i].sleeps

(***************************************************************************)
(* The names of the folders                                                *)
(***************************************************************************)
\* the characters no file name may have
Reserved == {"\\", "/", ":", "*", "?", "\"", "<", ">", "|"}

\* the last component of a path made by join(out_path, name)
FolderName(path) == SubSeq(path, Len(out_path) + 2, Len(path))

\* the name has no reserved character, no whitespace at its start, and
\* neither a period nor whitespace at its end
CleanName(name) ==
    /\ \A i \in DOMAIN name : name[i] \notin Reserved
    /\ name # <<>> =>
          /\ name[1] \notin Whitespace
          /\ name[Len(name)] \notin Whitespace
          /\ name[Len(name)] # "."

\* C26: the name of the folder of an album, of a playlist and of an artist
\* has none of the characters \ / : * ? " < > |, no whitespace at its
\* start, and neither a period nor whitespace at its end
C26_FolderNamesClean ==
    pc = "named" =>
        /\ alb.album_path # <<>> => CleanName(FolderName(alb.album_path))
        /\ pl.plist_path # <<>> => CleanName(FolderName(pl.plist_path))
        /\ art.artist_path # <<>> => CleanName(FolderName(art.artist_path))

(***************************************************************************)
(* A track that is asked for again                                         *)
(***************************************************************************)
\* C27: process_track reports "Track already exists locally" only for a
\* track that went through every stage before: the file at its final path
\* is one that write_tags has finished, never what an execution that
\* failed or was killed has left
C27_ExistsOnlyIfCompleted ==
    (pc = "track_ret" /\ trk.outcome = AlreadyExists) =>
        fs[trk.track_path][1] = "tagged"

\* C28: where process_track is about to download, no file is at the final
\* path it is going to write, the path of the template and the fallback
\* path of a path that is too long alike
C28_DownloadOnlyIfAbsent ==
    pc = "download_track" => trk.track_path \notin DOMAIN fs

(***************************************************************************)
(* The tracks of a playlist                                                *)
(***************************************************************************)
\* C29: once process_user_playlist is in its loop, nothing that happens to
\* one track ends the loop or the run: the program does not panic, and
\* process_user_playlist returns Ok with every track of the playlist
\* behind it
C29_PlaylistTrackFailureConfined ==
    /\ pc # "panicked"
    /\ (pc = "main_res" /\ pl.plist_path # <<>>) =>
          /\ res = "Ok"
          /\ pl.k = pl.track_total

(***************************************************************************)
(* The track numbers of an album                                           *)
(***************************************************************************)
\* C30: in one run of process_album any two of the available tracks, those
\* of different volumes too, have different track numbers, and no track
\* of the album is skipped as "already exists" in a run that started with
\* no files
C30_DistinctTrackNumbers ==
    /\ \A i, j \in DOMAIN alb.tracks :
          i # j => alb.tracks[i].track_num # alb.tracks[j].track_num
    /\ \A i \in DOMAIN alb.invoked :
          alb.invoked[i].outcome # AlreadyExists

====
